---- MODULE Spec2Model ----
(***************************************************************************)
(* Model of fastuidraw's FilledPath (src/fastuidraw/painter/               *)
(* filled_path.cpp): the SubPath splitting, the subset tree                *)
(* (SubsetPrivate), lazy realization (make_ready), select_subsets, the     *)
(* PointHoard / tesser / builder pipeline and the attribute packers.       *)
(*                                                                         *)
(* Conventions.                                                            *)
(*  - Coordinates (double in the source) are fixed-point integers; a       *)
(*    division rounds to the grid as the source's doubles round.           *)
(*  - A pointer is a sequence of length <= 1: << >> is nullptr, <<v>> is a *)
(*    pointer to v.  A SubsetPrivate* is the node's position in            *)
(*    m_subsets (its m_ID), -1 is nullptr.                                 *)
(*  - A splitting coordinate is 0 (x) or 1 (y) as in the source; a point   *)
(*    is a pair <<x, y>> so coordinate c of p is p[c + 1].                 *)
(*  - std::vector / std::list are sequences; C index i is TLA+ index i+1.  *)
(***************************************************************************)
EXTENDS Integers, Sequences, FiniteSets, TLC

\* ---------------------------------------------------------------------
\* Generic helpers
\* ---------------------------------------------------------------------
Range(s) == {s[i] : i \in DOMAIN s}

t_max(a, b) == IF a < b THEN b ELSE a

t_min(a, b) == IF a < b THEN a ELSE b

t_abs(a) == IF a < 0 THEN -a ELSE a

\* C++ integer division and remainder truncate toward zero
CDiv(a, b) == IF (a >= 0) = (b > 0) THEN t_abs(a) \div t_abs(b) ELSE -(t_abs(a) \div t_abs(b))

CRem(a, b) == a - b * CDiv(a, b)

\* sum, concatenation and maximum of the entries of a sequence, by halving
RECURSIVE SumSeq(_)
SumSeq(s) ==
  IF Len(s) = 0 THEN 0
  ELSE IF Len(s) = 1 THEN s[1]
  ELSE LET h == Len(s) \div 2
       IN SumSeq(SubSeq(s, 1, h)) + SumSeq(SubSeq(s, h + 1, Len(s)))

RECURSIVE Flatten(_)
Flatten(ss) ==
  IF Len(ss) = 0 THEN << >>
  ELSE IF Len(ss) = 1 THEN ss[1]
  ELSE LET h == Len(ss) \div 2
       IN Flatten(SubSeq(ss, 1, h)) \o Flatten(SubSeq(ss, h + 1, Len(ss)))

RECURSIVE MaxOfSeq(_)
MaxOfSeq(s) ==
  IF Len(s) = 0 THEN 0
  ELSE IF Len(s) = 1 THEN s[1]
  ELSE LET h == Len(s) \div 2
       IN t_max(MaxOfSeq(SubSeq(s, 1, h)), MaxOfSeq(SubSeq(s, h + 1, Len(s))))

\* Body applied to the value v, which is computed once however often Body
\* refers to it
With(v, Body(_)) == Body(v)

nullptr == << >>

\* value of a member its constructor leaves uninitialized; the source reads
\* such a member only after assigning it
Indeterminate == -1

SetMin(S) == CHOOSE x \in S : \A y \in S : x <= y

SetMax(S) == CHOOSE x \in S : \A y \in S : x >= y

\* the ascending sequence of the elements of a finite set of integers
\* (iteration order of std::set<int> and of the keys of std::map<int, T>)
RECURSIVE SortedSeqOfSet(_)
SortedSeqOfSet(S) ==
  IF S = {} THEN << >>
  ELSE LET m == CHOOSE x \in S : \A y \in S : x <= y
       IN <<m>> \o SortedSeqOfSet(S \ {m})

\* element k (C index) of std::sort(s)
SortedAt(s, k) ==
  CHOOSE v \in Range(s) :
    /\ Cardinality({i \in DOMAIN s : s[i] < v}) <= k
    /\ k < Cardinality({i \in DOMAIN s : s[i] <= v})

\* ---------------------------------------------------------------------
\* SubsetConstants, CoordinateConverterConstants, PainterEnums
\* ---------------------------------------------------------------------
recursion_depth == 12

points_per_subset == 64

size_max_ratio == 4

log2_box_dim == 24

negative_log2_fudge == 20

box_dim == 2 ^ log2_box_dim

odd_even_fill_rule == 0

nonzero_fill_rule == 1

complement_odd_even_fill_rule == 2

complement_nonzero_fill_rule == 3

fill_rule_data_count == 4

\* ---------------------------------------------------------------------
\* SubContourPoint: boundary flags, corners, boundary progress
\* ---------------------------------------------------------------------
on_min_x_boundary == 1

on_max_x_boundary == 2

on_x_boundary == 3

on_min_y_boundary == 4

on_max_y_boundary == 8

on_y_boundary == 12

corner_minx_miny == 0

corner_minx_maxy == 1

corner_maxx_maxy == 2

corner_maxx_miny == 3

not_corner == 4

FlagBits == {1, 2, 4, 8}

HasBit(f, b) == (f \div b) % 2 = 1

\* bitwise operators of the source on the four flag bits
BitsOf(f) == {b \in FlagBits : HasBit(f, b)}

RECURSIVE FlagsOf(_)
FlagsOf(B) == IF B = {} THEN 0 ELSE LET b == CHOOSE x \in B : TRUE IN b + FlagsOf(B \ {b})

BitAnd(a, b) == FlagsOf(BitsOf(a) \cap BitsOf(b))

BitOr(a, b) == FlagsOf(BitsOf(a) \cup BitsOf(b))

BitAndNot(a, b) == FlagsOf(BitsOf(a) \ BitsOf(b))

good_boundary_bits(b) ==
  /\ BitAnd(on_x_boundary, b) # on_x_boundary
  /\ BitAnd(on_y_boundary, b) # on_y_boundary

corner(b) ==
  CASE b = on_min_x_boundary + on_min_y_boundary -> corner_minx_miny
    [] b = on_min_x_boundary + on_max_y_boundary -> corner_minx_maxy
    [] b = on_max_x_boundary + on_min_y_boundary -> corner_maxx_miny
    [] b = on_max_x_boundary + on_max_y_boundary -> corner_maxx_maxy
    [] OTHER -> not_corner

next_corner(c) == (c + 1) % not_corner

boundary_progress(b0, b1) ==
  LET c0 == corner(b0)
      c1 == corner(b1)
  IN IF c0 = not_corner \/ c1 = not_corner THEN 0
     ELSE IF c0 = next_corner(c1) THEN -1
     ELSE IF c1 = next_corner(c0) THEN 1
     ELSE 0

SubContourPoint(pt, f) == [p |-> pt, m_flags |-> f]

\* ---------------------------------------------------------------------
\* BoundingBox<double>
\* ---------------------------------------------------------------------
BoundingBox(pmin, pmax) == [m_min |-> pmin, m_max |-> pmax]

\* ---------------------------------------------------------------------
\* SubPath
\* ---------------------------------------------------------------------
\* the loop never advances prev: every point is compared with C.back()
contour_is_reducable(C) ==
  LET prev == C[Len(C)].m_flags
  IN \A i \in DOMAIN C : boundary_progress(prev, C[i].m_flags) # 0

SubPath_num_points(contours) ==
  SumSeq([i \in DOMAIN contours |->
            IF contour_is_reducable(contours[i]) THEN 0 ELSE Len(contours[i])])

\* SubPath(bb, contours, gen, name)
SubPath(bb, contours, gen) ==
  [m_num_points |-> SubPath_num_points(contours),
   m_bounds |-> bb,
   m_contours |-> contours,
   m_gen |-> gen]

\* first point of every edge and its interior points, never the last point
copy_contour(edges) ==
  Flatten([e \in DOMAIN edges |->
             [k \in 1..t_max(1, Len(edges[e]) - 1) |-> SubContourPoint(edges[e][k], 0)]])

\* TessellatedPath: P.m_edges[c][e] is the point list of edge e of contour c
AllPoints(P) == UNION {UNION {Range(P[c][e]) : e \in DOMAIN P[c]} : c \in DOMAIN P}

bounding_box_min(P) ==
  IF Len(P) = 0 THEN <<0, 0>>
  ELSE <<SetMin({q[1] : q \in AllPoints(P)}), SetMin({q[2] : q \in AllPoints(P)})>>

bounding_box_max(P) ==
  IF Len(P) = 0 THEN <<0, 0>>
  ELSE <<SetMax({q[1] : q \in AllPoints(P)}), SetMax({q[2] : q \in AllPoints(P)})>>

bounding_box_size(P) ==
  <<bounding_box_max(P)[1] - bounding_box_min(P)[1],
    bounding_box_max(P)[2] - bounding_box_min(P)[2]>>

\* SubPath(const TessellatedPath &P): the box is inflated by 1% of its size
SubPathFromTessellatedPath(P) ==
  With(bounding_box_min(P), LAMBDA bmin :
  With(bounding_box_max(P), LAMBDA bmax :
  With(bounding_box_size(P), LAMBDA sz :
  With([c \in DOMAIN P |-> copy_contour(P[c])], LAMBDA contours :
    [m_num_points |-> SubPath_num_points(contours),
     m_bounds |-> BoundingBox(<<bmin[1] - CDiv(sz[1], 100), bmin[2] - CDiv(sz[2], 100)>>,
                              <<bmax[1] + CDiv(sz[1], 100), bmax[2] + CDiv(sz[2], 100)>>),
     m_contours |-> contours,
     m_gen |-> 0]))))

AllContourPoints(contours) == Flatten(contours)

\* returns [value, before, after]
compute_splitting_location(Q, coord) ==
  With(AllContourPoints(Q.m_contours), LAMBDA pts :
  With([i \in DOMAIN pts |-> pts[i].p[coord + 1]], LAMBDA work_room :
  With(SortedAt(work_room, Len(work_room) \div 2), LAMBDA return_value :
    LET PrevOf(C, i) == IF i = 1 THEN C[Len(C)].p[coord + 1] ELSE C[i - 1].p[coord + 1]
        Before(C, i) ==
          LET pt == C[i].p[coord + 1]
              prev_pt == PrevOf(C, i)
              b == pt < return_value
              prev_b == prev_pt < return_value
          IN (IF b \/ pt = return_value THEN 1 ELSE 0)
             + (IF prev_pt # return_value /\ prev_b # b THEN 1 ELSE 0)
        After(C, i) ==
          LET pt == C[i].p[coord + 1]
              prev_pt == PrevOf(C, i)
              b == pt < return_value
              prev_b == prev_pt < return_value
          IN (IF ~b \/ pt = return_value THEN 1 ELSE 0)
             + (IF prev_pt # return_value /\ prev_b # b THEN 1 ELSE 0)
    IN [value |-> return_value,
        before |-> SumSeq([c \in DOMAIN Q.m_contours |->
                     SumSeq([i \in DOMAIN Q.m_contours[c] |-> Before(Q.m_contours[c], i)])]),
        after |-> SumSeq([c \in DOMAIN Q.m_contours |->
                     SumSeq([i \in DOMAIN Q.m_contours[c] |-> After(Q.m_contours[c], i)])])])))

\* returns [coord, s]
choose_splitting_coordinate(Q) ==
  LET bmin == Q.m_bounds.m_min
      bmax == Q.m_bounds.m_max
      mid_pt == <<CDiv(bmax[1] + bmin[1], 2), CDiv(bmax[2] + bmin[2], 2)>>
      wh == <<bmax[1] - bmin[1], bmax[2] - bmin[2]>>
  IN IF size_max_ratio > 0 /\ wh[1] >= size_max_ratio * wh[2]
       THEN [coord |-> 0, s |-> mid_pt[1]]
     ELSE IF size_max_ratio > 0 /\ wh[2] >= size_max_ratio * wh[1]
       THEN [coord |-> 1, s |-> mid_pt[2]]
     ELSE With(compute_splitting_location(Q, 0), LAMBDA L0 :
          With(compute_splitting_location(Q, 1), LAMBDA L1 :
            IF L0.before + L0.after < L1.before + L1.after
              THEN [coord |-> 0, s |-> L0.value]
              ELSE [coord |-> 1, s |-> L1.value]))

compute_spit_point(a, b, splitting_coordinate, splitting_value) ==
  LET n == splitting_value - a[splitting_coordinate + 1]
      d == b[splitting_coordinate + 1] - a[splitting_coordinate + 1]
      aa == a[2 - splitting_coordinate]
      bb == b[2 - splitting_coordinate]
      other == aa + CDiv((bb - aa) * n, d)
  IN IF splitting_coordinate = 0 THEN <<splitting_value, other>>
     ELSE <<other, splitting_value>>

\* the flags the two points have between them, remove_flag among them
split_flags_from_either(new_flag, remove_flag, pt_flags, prev_pt_flags) ==
  BitOr(new_flag, BitOr(pt_flags, prev_pt_flags))

\* the flags either point has, without remove_flag
split_flags_union(new_flag, remove_flag, pt_flags, prev_pt_flags) ==
  BitOr(new_flag, BitAndNot(BitOr(pt_flags, prev_pt_flags), remove_flag))

\* flags = new_flag | (~remove_flag & pt.flags() & prev_pt.flags())
split_flags(new_flag, remove_flag, pt_flags, prev_pt_flags) ==
  BitOr(new_flag, BitAndNot(BitAnd(pt_flags, prev_pt_flags), remove_flag))

\* the points split_contour appends to C0 (side = 0) or C1 (side = 1) while
\* visiting point i of src
split_contour_step(src, i, splitting_coordinate, splitting_value, side) ==
  LET pt == src[i]
      prev_pt == IF i = 1 THEN src[Len(src)] ELSE src[i - 1]
      c == splitting_coordinate + 1
      prev_b == IF side = 0 THEN prev_pt.p[c] <= splitting_value
                ELSE prev_pt.p[c] >= splitting_value
      b == IF side = 0 THEN pt.p[c] <= splitting_value
           ELSE pt.p[c] >= splitting_value
      new_flag == IF side = 0
                  THEN (IF splitting_coordinate = 0 THEN on_max_x_boundary ELSE on_max_y_boundary)
                  ELSE (IF splitting_coordinate = 0 THEN on_min_x_boundary ELSE on_min_y_boundary)
      remove_flag == IF side = 0
                     THEN (IF splitting_coordinate = 0 THEN on_min_x_boundary ELSE on_min_y_boundary)
                     ELSE (IF splitting_coordinate = 0 THEN on_max_x_boundary ELSE on_max_y_boundary)
      flags == split_flags(new_flag, remove_flag, pt.m_flags, prev_pt.m_flags)
      split_pt == compute_spit_point(prev_pt.p, pt.p, splitting_coordinate, splitting_value)
  IN (IF prev_b # b THEN <<SubContourPoint(split_pt, flags)>> ELSE << >>)
     \o (IF b THEN <<pt>> ELSE << >>)

\* returns <<C0, C1>>
split_contour(src, splitting_coordinate, splitting_value) ==
  <<Flatten([i \in DOMAIN src |->
       split_contour_step(src, i, splitting_coordinate, splitting_value, 0)]),
    Flatten([i \in DOMAIN src |->
       split_contour_step(src, i, splitting_coordinate, splitting_value, 1)])>>

DropEmpty(contours) == SelectSeq(contours, LAMBDA C : C # << >>)

\* B1 starting at the parent's min_point() along both axes
split_B1_min_from_min(Q, sc, mid_pt) == Q.m_bounds.m_min

\* B1: the parent's box from the splitting value on
split_B1_min(Q, sc, mid_pt) ==
  IF sc = 0 THEN <<mid_pt, Q.m_bounds.m_min[2]>> ELSE <<Q.m_bounds.m_min[1], mid_pt>>

\* B0: the parent's box up to the splitting value
split_B0_max(Q, sc, mid_pt) ==
  IF sc = 0 THEN <<mid_pt, Q.m_bounds.m_max[2]>> ELSE <<Q.m_bounds.m_max[1], mid_pt>>

\* returns [coord, C] with C the pair of children SubPaths
split(Q) ==
  With(choose_splitting_coordinate(Q), LAMBDA ch :
  With([c \in DOMAIN Q.m_contours |-> split_contour(Q.m_contours[c], ch.coord, ch.s)],
       LAMBDA parts :
    [coord |-> ch.coord,
     C |-> <<SubPath(BoundingBox(Q.m_bounds.m_min, split_B0_max(Q, ch.coord, ch.s)),
                     DropEmpty([c \in DOMAIN parts |-> parts[c][1]]), Q.m_gen + 1),
             SubPath(BoundingBox(split_B1_min(Q, ch.coord, ch.s), Q.m_bounds.m_max),
                     DropEmpty([c \in DOMAIN parts |-> parts[c][2]]), Q.m_gen + 1)>>]))

\* ---------------------------------------------------------------------
\* CoordinateConverter
\* ---------------------------------------------------------------------
\* the upper end of the clamp is one beyond box_dim
clamp_int_one_beyond(v) == t_min(t_max(v, 0), box_dim + 1)

clamp_int(v) == t_min(t_max(v, 0), box_dim)

\* the double m_scale * (pt - m_translate) is within the range of int, so
\* that its conversion to the int argument of clamp_int is defined
converts_to_int(v, lo, hi) ==
  /\ hi # lo
  /\ v - lo < 2 ^ (31 - log2_box_dim) * (hi - lo)
  /\ v - lo >= -(2 ^ (31 - log2_box_dim)) * (hi - lo)

\* m_scale * (pt - m_translate) converted to int; with a zero extent the
\* scale is infinite and the conversion of the non-finite product yields
\* INT_MIN, which clamp_int maps to 0
scaled_int(v, lo, hi) ==
  IF hi = lo THEN -box_dim ELSE CDiv((v - lo) * box_dim, hi - lo)

\* iapply of the converter built on the box bb
iapply(bb, pt) ==
  <<1 + clamp_int(scaled_int(pt[1], bb.m_min[1], bb.m_max[1])),
    1 + clamp_int(scaled_int(pt[2], bb.m_min[2], bb.m_max[2]))>>

\* unapply(dvec2) for a grid position
unapply(bb, ipt) ==
  <<CDiv((ipt[1] - 1) * (bb.m_max[1] - bb.m_min[1]), box_dim) + bb.m_min[1],
    CDiv((ipt[2] - 1) * (bb.m_max[2] - bb.m_min[2]), box_dim) + bb.m_min[2]>>

\* ---------------------------------------------------------------------
\* PointHoard
\* ---------------------------------------------------------------------
\* PointHoard(bounds, pts): m_map is a function from ipt to index
PointHoard(bounds) ==
  [bounds |-> bounds, m_pts |-> << >>, m_ipts |-> << >>, m_map |-> << >>]

ContourPoint(v, f) == [m_vertex |-> v, m_flags |-> f]

\* lookup of ipt in m_map, appending (pt, ipt) on a miss; returns [H, I]
map_find_or_add(H, pt, ipt) ==
  IF ipt \in DOMAIN H.m_map
  THEN [H |-> H, I |-> H.m_map[ipt]]
  ELSE [H |-> [H EXCEPT !.m_pts = Append(@, pt),
                        !.m_ipts = Append(@, ipt),
                        !.m_map = (ipt :> Len(H.m_pts)) @@ @],
        I |-> Len(H.m_pts)]

\* the four tests of fetch_discretized on flags, overriding ipt
with_boundary_flags(ipt, flags) ==
  LET x1 == IF HasBit(flags, on_min_x_boundary) THEN 1 ELSE ipt[1]
      x2 == IF HasBit(flags, on_max_x_boundary) THEN box_dim + 1 ELSE x1
      y1 == IF HasBit(flags, on_min_y_boundary) THEN 1 ELSE ipt[2]
      y2 == IF HasBit(flags, on_max_y_boundary) THEN box_dim + 1 ELSE y1
  IN <<x2, y2>>

discretize(bounds, pt, flags) == with_boundary_flags(iapply(bounds, pt), flags)

fetch_discretized(H, pt, flags) == map_find_or_add(H, pt, discretize(H.bounds, pt, flags))

fetch_undiscretized(H, pt) ==
  [H |-> [H EXCEPT !.m_ipts = Append(@, iapply(H.bounds, pt)),
                   !.m_pts = Append(@, pt)],
   I |-> Len(H.m_pts)]

fetch_corner(H, is_max_x, is_max_y) ==
  LET ipt == <<IF is_max_x THEN box_dim + 1 ELSE 1, IF is_max_y THEN box_dim + 1 ELSE 1>>
      P == <<IF is_max_x THEN H.bounds.m_max[1] ELSE H.bounds.m_min[1],
             IF is_max_y THEN H.bounds.m_max[2] ELSE H.bounds.m_min[2]>>
  IN map_find_or_add(H, P, ipt)

edge_hugs_boundary(H, a, b) ==
  LET pA == H.m_ipts[a + 1]
      pB == H.m_ipts[b + 1]
      slack == 1
  IN \E coord \in {1, 2} :
       \/ pA[coord] <= slack /\ pB[coord] <= slack
       \/ pA[coord] >= box_dim - slack /\ pB[coord] >= box_dim - slack

\* how many fudge_delta make one grid unit: m_delta_fudge is
\* exp2(-negative_log2_fudge)
fudge_per_unit == 2 ^ negative_log2_fudge

\* the double ipt + fudge on one axis, with fudge = -fudge_r when
\* ipt >= box_dim / 2 and fudge_r otherwise, fudge_r being fudge_count *
\* fudge_delta: the sum is a multiple of fudge_delta below 2^26 and is exact
\* in a double; it is held as whole + frac * fudge_delta, 0 <= frac <
\* fudge_per_unit
apply_axis(ipt, fudge_count) ==
  With(IF ipt >= box_dim \div 2 THEN -fudge_count ELSE fudge_count, LAMBDA fudge :
    [whole |-> ipt + (fudge \div fudge_per_unit), frac |-> fudge % fudge_per_unit])

\* PointHoard::apply(I, fudge_count)
apply(H, I, fudge_count) ==
  <<apply_axis(H.m_ipts[I + 1][1], fudge_count), apply_axis(H.m_ipts[I + 1][2], fudge_count)>>

\* fetch_discretized applied in turn to the points of C, starting from the
\* hoard H: point k gets the index of the first point (of the hoard, then
\* of C) with the same ipt; a point whose ipt is new is appended.
\* Returns [H, I] with I[k] the index returned for C[k].
fetch_discretized_all(H, C) ==
  With([k \in DOMAIN C |-> discretize(H.bounds, C[k].p, C[k].m_flags)], LAMBDA ipt :
  With([k \in DOMAIN C |-> SetMin({j \in 1..k : ipt[j] = ipt[k]})], LAMBDA first :
  With([k \in DOMAIN C |-> ipt[k] \notin DOMAIN H.m_map /\ first[k] = k], LAMBDA isNew :
  With(SelectSeq([k \in DOMAIN C |-> k], LAMBDA k : isNew[k]), LAMBDA added :
  With([k \in Range(added) |->
          Len(H.m_pts) + (CHOOSE a \in DOMAIN added : added[a] = k) - 1], LAMBDA indexOfNew :
  With([k \in DOMAIN C |->
          IF ipt[k] \in DOMAIN H.m_map THEN H.m_map[ipt[k]] ELSE indexOfNew[first[k]]],
       LAMBDA I :
    [H |-> [H EXCEPT !.m_pts = @ \o [a \in DOMAIN added |-> C[added[a]].p],
                     !.m_ipts = @ \o [a \in DOMAIN added |-> ipt[added[a]]],
                     !.m_map = [q \in {ipt[k] : k \in Range(added)} |->
                                  I[CHOOSE k \in Range(added) : ipt[k] = q]] @@ @],
     I |-> I]))))))

\* while (!output.empty() && output.back().m_vertex == output.front().m_vertex) pop_back
pop_closing(output) ==
  With({l \in DOMAIN output : output[l].m_vertex # output[1].m_vertex}, LAMBDA keep :
    IF keep = {} THEN << >> ELSE SubSeq(output, 1, SetMax(keep)))

\* returns [H, output]; a point is pushed when output is empty or its index
\* differs from that of the previous point pushed, which is the index of
\* the point before it
generate_contour(H, C) ==
  With(fetch_discretized_all(H, C), LAMBDA r :
  With(SelectSeq([k \in DOMAIN C |-> k], LAMBDA k : k = 1 \/ r.I[k] # r.I[k - 1]),
       LAMBDA pushed :
  With(pop_closing([a \in DOMAIN pushed |->
                      ContourPoint(r.I[pushed[a]], C[pushed[a]].m_flags)]), LAMBDA popped :
    [H |-> r.H, output |-> IF Len(popped) < 3 THEN << >> ELSE popped])))

\* the two nested loops of unloop_contour: i is the position of the outer
\* iterator in the list C, from the position the inner iterator j resumes
\* at; the inner loop runs to the first j whose vertex is looking_for
RECURSIVE unloop_contour_loop(_, _, _, _)
unloop_contour_loop(C, i, from, output) ==
  IF i > Len(C)
  THEN IF C # << >> THEN Append(output, C) ELSE output
  ELSE With({j \in from..Len(C) : C[j].m_vertex = C[i].m_vertex}, LAMBDA J :
         IF J = {}
         THEN unloop_contour_loop(C, i + 1, i + 2, output)
         ELSE With(SetMin(J), LAMBDA j :
                unloop_contour_loop(SubSeq(C, 1, i - 1) \o SubSeq(C, j, Len(C)), i, i + 1,
                                    Append(output, SubSeq(C, i, j - 1)))))

unloop_contour(C) == IF C = << >> THEN << >> ELSE unloop_contour_loop(C, 1, 2, << >>)

\* bcount is summed over the edges but the one from the last point to the
\* first
reduce_progress_without_closing_edge(C) ==
  With([k \in DOMAIN C |->
          boundary_progress((IF k = 1 THEN C[Len(C)] ELSE C[k - 1]).m_flags, C[k].m_flags)],
       LAMBDA r :
    [stopped |-> \E k \in DOMAIN C : r[k] = 0, bcount |-> SumSeq(r) - r[1]])

\* bcount after the loop of reduce_contour, or "stop" when a progress is 0
reduce_progress(C) ==
  With([k \in DOMAIN C |->
          boundary_progress((IF k = 1 THEN C[Len(C)] ELSE C[k - 1]).m_flags, C[k].m_flags)],
       LAMBDA r :
    [stopped |-> \E k \in DOMAIN C : r[k] = 0, bcount |-> SumSeq(r)])

\* bcount / 4 is returned, without the sign change
reduce_contour_returning_bcount(C) ==
  IF Len(C) <= 2 THEN [C |-> << >>, w |-> 0, asserted |-> FALSE]
  ELSE With(reduce_progress(C), LAMBDA r :
         IF r.stopped THEN [C |-> C, w |-> 0, asserted |-> FALSE]
         ELSE [C |-> << >>, w |-> CDiv(r.bcount, 4), asserted |-> CRem(r.bcount, 4) # 0])

\* returns [C, w, asserted]
reduce_contour(C) ==
  IF Len(C) <= 2 THEN [C |-> << >>, w |-> 0, asserted |-> FALSE]
  ELSE With(reduce_progress(C), LAMBDA r :
         IF r.stopped THEN [C |-> C, w |-> 0, asserted |-> FALSE]
         ELSE [C |-> << >>, w |-> CDiv(-r.bcount, 4), asserted |-> CRem(r.bcount, 4) # 0])

\* returns [H, path, w, asserted]
add_contour_to_path(H, C, path_output) ==
  With(generate_contour(H, C), LAMBDA g :
  With(unloop_contour(g.output), LAMBDA tmp_unlooped :
  With([k \in DOMAIN tmp_unlooped |-> reduce_contour(tmp_unlooped[k])], LAMBDA red :
    [H |-> g.H,
     path |-> path_output \o SelectSeq([k \in DOMAIN red |-> red[k].C], LAMBDA v : v # << >>),
     w |-> SumSeq([k \in DOMAIN red |-> red[k].w]),
     asserted |-> \E k \in DOMAIN red : red[k].asserted])))

RECURSIVE generate_path_loop(_, _, _, _)
generate_path_loop(H, contours, k, acc) ==
  IF k > Len(contours) THEN [H |-> H, path |-> acc.path, w |-> acc.w, asserted |-> acc.asserted]
  ELSE With(add_contour_to_path(H, contours[k], acc.path), LAMBDA r :
         generate_path_loop(r.H, contours, k + 1,
           [path |-> r.path, w |-> acc.w + r.w, asserted |-> acc.asserted \/ r.asserted]))

\* returns [H, path, w, asserted]: w is the winding offset of the SubPath
generate_path(H, input) ==
  generate_path_loop(H, input.m_contours, 1, [path |-> << >>, w |-> 0, asserted |-> FALSE])

\* ---------------------------------------------------------------------
\* EdgeList, TriangleList, WindingComponentData
\* ---------------------------------------------------------------------
Edge(start, end, next, draw_edge, draw_bevel) ==
  [m_start |-> start, m_end |-> end, m_next |-> next,
   m_draw_edge |-> draw_edge, m_draw_bevel |-> draw_bevel]

Edge_num_attributes(E) ==
  (IF E.m_draw_edge THEN 4 ELSE 0) + (IF E.m_draw_bevel THEN 3 ELSE 0)

Edge_num_indices(E) ==
  (IF E.m_draw_edge THEN 6 ELSE 0) + (IF E.m_draw_bevel THEN 3 ELSE 0)

EdgeList == [m_edges |-> << >>, m_attribute_count |-> 0, m_index_count |-> 0, m_edge_count |-> 0]

\* m_draw_bevel of an edge is set from the edge alone
boundary_current_bevel_of_drawn_edges(E) ==
  [i \in DOMAIN E |->
     LET n == IF i = Len(E) THEN E[1] ELSE E[i + 1]
     IN Edge(E[i].p0, E[i].p1, n.p1, E[i].edge_drawn, E[i].edge_drawn)]

\* m_current at the end of end_boundary, for the calls add_edge(E[i].p0,
\* E[i].p1, E[i].edge_drawn) made in turn after begin_boundary: add_edge
\* i+1 sets m_next and m_draw_bevel of edge i, end_boundary those of the last
boundary_current(E) ==
  [i \in DOMAIN E |->
     LET n == IF i = Len(E) THEN E[1] ELSE E[i + 1]
     IN Edge(E[i].p0, E[i].p1, n.p1, E[i].edge_drawn, n.edge_drawn \/ E[i].edge_drawn)]

\* begin_boundary, the add_edge calls and end_boundary on the edge list L
add_boundary(L, E) ==
  With(SelectSeq(boundary_current(E), LAMBDA e : e.m_draw_edge \/ e.m_draw_bevel),
       LAMBDA kept :
    [m_edges |-> L.m_edges \o kept,
     m_edge_count |-> L.m_edge_count + Len(kept),
     m_attribute_count |-> L.m_attribute_count
                             + SumSeq([k \in DOMAIN kept |-> Edge_num_attributes(kept[k])]),
     m_index_count |-> L.m_index_count
                         + SumSeq([k \in DOMAIN kept |-> Edge_num_indices(kept[k])])])

WindingComponentData == [m_triangles |-> << >>, m_edge_list |-> EdgeList]

\* h = m_hoard[winding], creating the record when absent
hoard_at(hoard, winding) ==
  IF winding \in DOMAIN hoard THEN hoard ELSE (winding :> WindingComponentData) @@ hoard

\* ---------------------------------------------------------------------
\* tesser: the callbacks the triangulator drives
\* ---------------------------------------------------------------------
FASTUIDRAW_GLU_nullptr_CLIENT_ID == -1

\* tesser(points, P, winding_offset, hoard) before start(); add_path
\* delivers one vertex per contour point, counted by m_point_count
tesser(points, P, winding_offset) ==
  [m_points |-> points,
   m_point_count |-> SumSeq([k \in DOMAIN P |-> Len(P[k])]),
   m_temp_verts |-> <<Indeterminate, Indeterminate, Indeterminate>>,
   m_temp_vert_count |-> 0,
   m_triangulation_failed |-> FALSE,
   m_current_winding |-> 0,
   m_winding_offset |-> winding_offset,
   m_hoard |-> << >>,
   outData |-> Indeterminate]

\* tesser::add_contour(C) when m_point_count is point_count at the call:
\* the vertices handed to fastuidraw_gluTessVertex, in turn, and
\* m_point_count after the call
add_contour(points, point_count, C) ==
  [delivered |-> [j \in DOMAIN C |->
                    [p |-> apply(points, C[j].m_vertex, point_count + j - 1),
                     data |-> C[j].m_vertex]],
   m_point_count |-> point_count + Len(C)]

\* the area and altitude tests are on 64-bit products of grid coordinates;
\* their outcome is the input sliver unless two of the points coincide on
\* the grid, in which case twice_area is 0
temp_verts_non_degenerate_triangle(T, sliver) ==
  LET v == T.m_temp_verts
      ip == [k \in 1..3 |-> T.m_points.m_ipts[v[k] + 1]]
  IN IF v[1] = v[2] \/ v[1] = v[3] \/ v[2] = v[3] THEN FALSE
     ELSE IF ip[1] = ip[2] \/ ip[1] = ip[3] \/ ip[2] = ip[3] THEN FALSE
     ELSE ~sliver

begin_callBack(T, glu_tess_winding_number) ==
  LET w == glu_tess_winding_number + T.m_winding_offset
  IN [T EXCEPT !.m_temp_vert_count = 0,
               !.m_current_winding = w,
               !.m_hoard = hoard_at(@, w)]

vertex_callBack(T, vertex_id, sliver) ==
  LET T1 == [T EXCEPT !.m_triangulation_failed = @ \/ vertex_id = FASTUIDRAW_GLU_nullptr_CLIENT_ID,
                      !.m_temp_verts[T.m_temp_vert_count + 1] = vertex_id,
                      !.m_temp_vert_count = @ + 1]
  IN IF T1.m_temp_vert_count = 3
     THEN LET T2 == [T1 EXCEPT !.m_temp_vert_count = 0]
          IN IF /\ T2.m_temp_verts[1] # FASTUIDRAW_GLU_nullptr_CLIENT_ID
                /\ T2.m_temp_verts[2] # FASTUIDRAW_GLU_nullptr_CLIENT_ID
                /\ T2.m_temp_verts[3] # FASTUIDRAW_GLU_nullptr_CLIENT_ID
                /\ temp_verts_non_degenerate_triangle(T2, sliver)
             THEN [T2 EXCEPT !.m_hoard[T2.m_current_winding].m_triangles = @ \o T2.m_temp_verts]
             ELSE T2
     ELSE T1

\* weight[i] = num[i] / den; (x, y) is the triangulator's grid position
combine_callback(T, x, y, data, num, den) ==
  LET use_sum == \A i \in 1..4 : data[i] # FASTUIDRAW_GLU_nullptr_CLIENT_ID
      P(i) == T.m_points.m_pts[data[i] + 1]
      pt == IF use_sum
            THEN <<CDiv(SumSeq([i \in 1..4 |-> num[i] * P(i)[1]]), den),
                   CDiv(SumSeq([i \in 1..4 |-> num[i] * P(i)[2]]), den)>>
            ELSE unapply(T.m_points.bounds, <<x, y>>)
  IN [T EXCEPT !.m_points = fetch_undiscretized(T.m_points, pt).H,
               !.outData = fetch_undiscretized(T.m_points, pt).I]

boundary_callback(T, is_max_x, is_max_y) ==
  [T EXCEPT !.m_points = fetch_corner(T.m_points, is_max_x, is_max_y).H,
            !.outData = fetch_corner(T.m_points, is_max_x, is_max_y).I]

winding_callBack(winding_number) == TRUE

emitmonotone_callback(T, glu_tess_winding, vertex_ids, winding_ids) ==
  LET winding == T.m_winding_offset + glu_tess_winding
      hoard == hoard_at(T.m_hoard, winding)
      count == Len(vertex_ids)
      E == [i \in 1..count |->
              LET va == vertex_ids[i]
                  vb == vertex_ids[IF i + 1 <= count THEN i + 1 ELSE 1]
                  hugs_bdy == edge_hugs_boundary(T.m_points, va, vb)
                  same_winding == winding_ids[i] = glu_tess_winding
              IN [p0 |-> va, p1 |-> vb, edge_drawn |-> ~hugs_bdy /\ ~same_winding]]
  IN [T EXCEPT !.m_hoard = [hoard EXCEPT ![winding].m_edge_list =
                               IF count = 0 THEN @ ELSE add_boundary(@, E)]]

\* in a vertex event, stands for the id the latest combine / boundary
\* callback handed back to the triangulator in *outData
OUT_DATA_ID == -2

\* the id a vertex event carries: a client id given in add_path, the
\* null client id, or the id of *outData
event_vertex_id(T, ev) ==
  IF ev.id = OUT_DATA_ID THEN T.outData ELSE ev.id

\* one callback of the triangulator, described by the record ev
tesser_callback(T, ev) ==
  CASE ev.type = "begin" -> begin_callBack(T, ev.winding)
    [] ev.type = "vertex" -> vertex_callBack(T, event_vertex_id(T, ev), ev.sliver)
    [] ev.type = "combine" -> combine_callback(T, ev.x, ev.y, ev.data, ev.num, ev.den)
    [] ev.type = "boundary" -> boundary_callback(T, ev.is_max_x, ev.is_max_y)
    [] ev.type = "monotone" -> emitmonotone_callback(T, ev.winding, ev.vertex_ids, ev.winding_ids)

\* the callbacks made between start() and stop()
RECURSIVE tesser_run(_, _)
tesser_run(T, events) ==
  IF events = << >> THEN T
  ELSE tesser_run(tesser_callback(T, Head(events)), Tail(events))

\* ---------------------------------------------------------------------
\* builder
\* ---------------------------------------------------------------------
\* m_hoard as the tesser leaves it: for each winding the sizes of its
\* triangle list and of its edge list
tessellated_sizes(hoard) ==
  [w \in DOMAIN hoard |-> [m_triangles |-> Len(hoard[w].m_triangles),
                           m_edge_count |-> hoard[w].m_edge_list.m_edge_count]]

\* no entry of m_hoard is erased
builder_purge_nothing(hoard) == hoard

\* the loop erasing the entries of m_hoard that hold no triangle
builder_purge(hoard) ==
  [w \in {v \in DOMAIN hoard : hoard[v].m_triangles # << >>} |-> hoard[w]]

\* the block run when m_hoard is empty after the purge: the hoard gets the
\* two triangles of the corners of the box, with the winding offset
builder_bounding_rectangle(gp, T) ==
  With(fetch_corner(T.m_points, TRUE, TRUE), LAMBDA c11 :
  With(fetch_corner(c11.H, TRUE, FALSE), LAMBDA c10 :
  With(fetch_corner(c10.H, FALSE, FALSE), LAMBDA c00 :
  With(fetch_corner(c00.H, FALSE, TRUE), LAMBDA c01 :
    [m_hoard |-> (gp.w :> [WindingComponentData EXCEPT
                             !.m_triangles = <<c11.I, c10.I, c00.I, c11.I, c00.I, c01.I>>]),
     m_points |-> c01.H,
     m_failed |-> T.m_triangulation_failed,
     winding_offset |-> gp.w,
     point_count |-> T.m_point_count,
     asserted |-> gp.asserted,
     hoard_empty |-> TRUE,
     tessellated |-> tessellated_sizes(T.m_hoard)]))))

\* builder() without the block that fills an empty m_hoard
builder_from_without_fallback(gp, T) ==
  [m_hoard |-> builder_purge(T.m_hoard),
   m_points |-> T.m_points,
   m_failed |-> T.m_triangulation_failed,
   winding_offset |-> gp.w,
   point_count |-> T.m_point_count,
   asserted |-> gp.asserted,
   hoard_empty |-> DOMAIN builder_purge(T.m_hoard) = {},
   tessellated |-> tessellated_sizes(T.m_hoard)]

\* builder(P, pts) once the tesser T has run on generate_path's result gp.
\* Returns [m_hoard, m_points, m_failed, winding_offset, point_count,
\* asserted, hoard_empty], the last being m_hoard.empty() as tested after
\* the purge
builder_from(gp, T) ==
  IF DOMAIN builder_purge(T.m_hoard) = {}
  THEN builder_bounding_rectangle(gp, T)
  ELSE [m_hoard |-> builder_purge(T.m_hoard),
        m_points |-> T.m_points,
        m_failed |-> T.m_triangulation_failed,
        winding_offset |-> gp.w,
        point_count |-> T.m_point_count,
        asserted |-> gp.asserted,
        hoard_empty |-> FALSE,
        tessellated |-> tessellated_sizes(T.m_hoard)]

is_even(v) == CRem(v, 2) = 0

\* the class of a winding in fill_indices: 0 odd, 1 even non-zero, 2 zero
winding_class(winding) ==
  IF winding = 0 THEN 2 ELSE IF is_even(winding) THEN 1 ELSE 0

\* count of the indices of the windings of class cl that precede winding in
\* the iteration of m_hoard: what fill_at has added to the class's offset
filled_before(hoard, winding, cl) ==
  SumSeq([k \in DOMAIN SortedSeqOfSet({v \in DOMAIN hoard : v < winding /\ winding_class(v) = cl}) |->
            Len(hoard[SortedSeqOfSet({v \in DOMAIN hoard : v < winding /\ winding_class(v) = cl})[k]].m_triangles)])

class_total(hoard, cl) ==
  SumSeq([k \in DOMAIN SortedSeqOfSet({v \in DOMAIN hoard : winding_class(v) = cl}) |->
            Len(hoard[SortedSeqOfSet({v \in DOMAIN hoard : winding_class(v) = cl})[k]].m_triangles)])

\* current_even_non_zero starting at 0 like current_odd
class_start_even_at_zero(hoard, cl) ==
  IF cl = 0 THEN 0
  ELSE IF cl = 1 THEN 0
  ELSE class_total(hoard, 1) + class_total(hoard, 0)

\* the starting value of current_odd, current_even_non_zero, current_zero
class_start(hoard, cl) ==
  IF cl = 0 THEN 0
  ELSE IF cl = 1 THEN class_total(hoard, 0)
  ELSE class_total(hoard, 1) + class_total(hoard, 0)

\* returns [indices, winding_map, even_non_zero_start, zero_start];
\* winding_map[w] is the sub_range fill_at hands out, as [start, count]
fill_indices(B) ==
  With(B.m_hoard, LAMBDA hoard :
  With(class_total(hoard, 0) + class_total(hoard, 1) + class_total(hoard, 2), LAMBDA total :
  With([w \in DOMAIN hoard |->
          class_start(hoard, winding_class(w)) + filled_before(hoard, w, winding_class(w))],
       LAMBDA offset :
  With({w \in DOMAIN hoard : Len(hoard[w].m_triangles) > 0}, LAMBDA filled :
    LET Owners(pos) == {w \in filled :
                          offset[w] <= pos /\ pos < offset[w] + Len(hoard[w].m_triangles)}
    IN [indices |-> [pos1 \in 1..total |->
                       With(Owners(pos1 - 1), LAMBDA W :
                         IF W # {}
                         THEN hoard[SetMax(W)].m_triangles[pos1 - offset[SetMax(W)]]
                         ELSE 0)],
        winding_map |-> [w \in filled |->
                           [start |-> offset[w], count |-> Len(hoard[w].m_triangles)]],
        even_non_zero_start |-> class_total(hoard, 0),
        zero_start |-> class_total(hoard, 0) + class_total(hoard, 1)]))))

\* ---------------------------------------------------------------------
\* int arithmetic of the chunk encodings (32-bit two's complement)
\* ---------------------------------------------------------------------
INT_MAX == 2147483647

INT_MIN == (-INT_MAX) - 1

TwoTo30 == 1073741824

\* a + b in int for b in {-1, 0, 1, 4, 5}; an overflow wraps
int_add_small(a, b) ==
  IF b > 0 /\ a > INT_MAX - b THEN INT_MIN + (b - 1 - (INT_MAX - a))
  ELSE IF b < 0 /\ a < INT_MIN - b THEN INT_MAX + (b + 1 + (a - INT_MIN))
  ELSE a + b

\* 2 * a in int; an overflow wraps
int_twice(a) ==
  IF a >= TwoTo30 THEN ((a - TwoTo30) - TwoTo30) + ((a - TwoTo30) - TwoTo30)
  ELSE IF a < -TwoTo30 THEN ((a + TwoTo30) + TwoTo30) + ((a + TwoTo30) + TwoTo30)
  ELSE 2 * a

\* std::abs / t_abs on int: -INT_MIN wraps to INT_MIN
int_abs(w) == IF w = INT_MIN THEN INT_MIN ELSE IF w < 0 THEN -w ELSE w

\* An unsigned return value is represented by the int with the same 32 bits.
signed_to_unsigned(w) ==
  LET v == int_abs(w)
      sgn == IF w < 0 THEN -1 ELSE 0
  IN int_add_small(int_twice(v), sgn)

fill_chunk_from_winding_number(winding_number) ==
  IF winding_number = 0 THEN complement_nonzero_fill_rule
  ELSE LET value == int_abs(winding_number)
           sg == IF winding_number < 0 THEN 1 ELSE 0
       IN int_add_small(int_twice(int_add_small(value, -1)), fill_rule_data_count + sg)

fill_chunk_from_fill_rule(fill_rule) == fill_rule

aa_fuzz_chunk_from_winding_number(w) == signed_to_unsigned(w)

\* ---------------------------------------------------------------------
\* PainterAttributeData and the fillers
\* ---------------------------------------------------------------------
PainterAttribute(attrib0, attrib1) ==
  [m_attrib0 |-> attrib0, m_attrib1 |-> attrib1, m_attrib2 |-> <<0, 0, 0, 0>>]

range_type(b, e) == [m_begin |-> b, m_end |-> e]

\* the arrays PainterAttributeData::set_data hands to fill_data
PainterAttributeData(attrib_chunks, index_chunks, zranges) ==
  [attribute_data_chunks |-> attrib_chunks,
   index_data_chunks |-> index_chunks,
   z_ranges |-> zranges,
   index_adjusts |-> [i \in DOMAIN index_chunks |-> 0]]

attribute_data_chunk(D, i) ==
  IF i < Len(D.attribute_data_chunks) THEN D.attribute_data_chunks[i + 1] ELSE << >>

index_data_chunk(D, i) ==
  IF i < Len(D.index_data_chunks) THEN D.index_data_chunks[i + 1] ELSE << >>

z_range(D, i) ==
  IF i < Len(D.z_ranges) THEN D.z_ranges[i + 1] ELSE range_type(0, 0)

largest_attribute_chunk(D) ==
  MaxOfSeq([i \in DOMAIN D.attribute_data_chunks |-> Len(D.attribute_data_chunks[i])])

largest_index_chunk(D) ==
  MaxOfSeq([i \in DOMAIN D.index_data_chunks |-> Len(D.index_data_chunks[i])])

generate_attribute(src) == PainterAttribute(<<src[1], src[2], 0, 0>>, <<0, 0, 0, 0>>)

\* FillAttributeDataFiller as make_ready_from_sub_path sets it up from
\* fill_indices' result F and the points of the builder
FillAttributeDataFiller(points, F) ==
  [m_points |-> points,
   m_indices |-> F.indices,
   m_nonzero_winding_indices |-> SubSeq(F.indices, 1, F.zero_start),
   m_odd_winding_indices |-> SubSeq(F.indices, 1, F.even_non_zero_start),
   m_even_winding_indices |-> SubSeq(F.indices, F.even_non_zero_start + 1, Len(F.indices)),
   m_zero_winding_indices |-> SubSeq(F.indices, F.zero_start + 1, Len(F.indices)),
   m_per_fill |-> [w \in DOMAIN F.winding_map |->
                     SubSeq(F.indices, F.winding_map[w].start + 1,
                            F.winding_map[w].start + F.winding_map[w].count)]]

\* number_index_chunks of FillAttributeDataFiller::compute_sizes
Fill_number_index_chunks(filler) ==
  IF DOMAIN filler.m_per_fill = {} THEN 0
  ELSE 1 + t_max(fill_chunk_from_winding_number(SetMax(DOMAIN filler.m_per_fill)),
                 fill_chunk_from_winding_number(SetMin(DOMAIN filler.m_per_fill)))

\* set_data(filler): compute_sizes, then fill_data on the arrays
Fill_set_data(filler) ==
  IF DOMAIN filler.m_per_fill = {}
  THEN PainterAttributeData(<< >>, << >>, << >>)
  ELSE PainterAttributeData(
         <<[k \in DOMAIN filler.m_points |-> generate_attribute(filler.m_points[k])]>>,
         [c1 \in 1..Fill_number_index_chunks(filler) |->
            LET c == c1 - 1
                W == {w \in DOMAIN filler.m_per_fill :
                        w # 0 /\ fill_chunk_from_winding_number(w) = c}
            IN IF W # {} THEN filler.m_per_fill[SetMax(W)]
               ELSE IF c = odd_even_fill_rule THEN filler.m_odd_winding_indices
               ELSE IF c = nonzero_fill_rule THEN filler.m_nonzero_winding_indices
               ELSE IF c = complement_odd_even_fill_rule THEN filler.m_even_winding_indices
               ELSE IF c = complement_nonzero_fill_rule THEN filler.m_zero_winding_indices
               ELSE << >>],
         << >>)

\* pack_attribute: the attributes of one edge, at depth z
pack_attribute(pts, E, z) ==
  LET P(v) == pts[v + 1]
      tangent == <<P(E.m_end)[1] - P(E.m_start)[1], P(E.m_end)[2] - P(E.m_start)[2]>>
      normal == <<-tangent[2], tangent[1]>>
      sgn == <<-1, 1, 1, -1>>
      t2 == <<P(E.m_next)[1] - P(E.m_end)[1], P(E.m_next)[2] - P(E.m_end)[2]>>
      n2 == <<-t2[2], t2[1]>>
      sb == IF t2[1] * normal[1] + t2[2] * normal[2] < 0 THEN 1 ELSE -1
      quad == [k \in 1..4 |->
                 LET position == P(IF k <= 2 THEN E.m_start ELSE E.m_end)
                 IN PainterAttribute(<<position[1], position[2], normal[1], normal[2]>>,
                                     <<sgn[k], z, 0, 0>>)]
      bevel == [k \in 1..3 |->
                  LET n == IF k = 3 THEN n2 ELSE normal
                  IN PainterAttribute(<<P(E.m_end)[1], P(E.m_end)[2], n[1], n[2]>>,
                                      <<IF k = 2 THEN 0 ELSE sb, z, 0, 0>>)]
  IN (IF E.m_draw_edge THEN quad ELSE << >>) \o (IF E.m_draw_bevel THEN bevel ELSE << >>)

\* the indices of one edge whose attributes start at a_tmp in its chunk
edge_indices(E, a_tmp) ==
  (IF E.m_draw_edge
   THEN <<a_tmp, a_tmp + 1, a_tmp + 2, a_tmp, a_tmp + 2, a_tmp + 3>> ELSE << >>)
  \o (IF E.m_draw_bevel
      THEN [i \in 1..3 |-> a_tmp + (IF E.m_draw_edge THEN 4 ELSE 0) + i - 1] ELSE << >>)

\* number of chunks of EdgeAttributeDataFiller::compute_sizes
Edge_number_chunks(windings) ==
  t_max(signed_to_unsigned(windings[1]), signed_to_unsigned(windings[Len(windings)])) + 1

\* set_data(edge_filler) for EdgeAttributeDataFiller(windings, pts, B)
Edge_set_data(windings, pts, B) ==
  LET n == Edge_number_chunks(windings)
      WindingOf(ch) == {w \in Range(windings) : signed_to_unsigned(w) = ch}
      edges(ch) == IF WindingOf(ch) = {} THEN << >>
                   ELSE B.m_hoard[SetMax(WindingOf(ch))].m_edge_list.m_edges
      zend(ch) == IF WindingOf(ch) = {} THEN 0
                  ELSE B.m_hoard[SetMax(WindingOf(ch))].m_edge_list.m_edge_count
      a_before(ch, k) == SumSeq([j \in 1..(k - 1) |-> Edge_num_attributes(edges(ch)[j])])
  IN PainterAttributeData(
       [c1 \in 1..n |-> Flatten([k \in DOMAIN edges(c1 - 1) |->
                          pack_attribute(pts, edges(c1 - 1)[k], zend(c1 - 1) - 1 - (k - 1))])],
       [c1 \in 1..n |-> Flatten([k \in DOMAIN edges(c1 - 1) |->
                          edge_indices(edges(c1 - 1)[k], a_before(c1 - 1, k))])],
       [c1 \in 1..n |-> range_type(0, zend(c1 - 1))])

\* ---------------------------------------------------------------------
\* AttributeDataMerger, FillAttributeDataMerger, EdgeAttributeDataMerger
\* ---------------------------------------------------------------------
\* the attributes from m_a are left as they are
post_process_attributes_unshifted(b, chunk, dst_from_a) == dst_from_a

\* EdgeAttributeDataMerger::post_process_attributes on dst_from_a
post_process_attributes(b, chunk, dst_from_a) ==
  LET add_z == z_range(b, chunk).m_end
  IN [k \in DOMAIN dst_from_a |->
        [dst_from_a[k] EXCEPT !.m_attrib1 = [@ EXCEPT ![2] = @ + add_z]]]

compute_z_range(a, b, chunk) ==
  range_type(0, z_range(a, chunk).m_end + z_range(b, chunk).m_end)

\* set_data(merger) for AttributeDataMerger(a, b, common_attribute_chunking);
\* the fill merger (common chunking) leaves the attributes as they are
\* the adjustment is the size of chunk i of m_a whatever the chunking
merger_adjust_by_own_chunk(a, common_attribute_chunking, i) ==
  Len(attribute_data_chunk(a, i))

\* adjust in fill_data: the size of the attribute chunk of m_a that the
\* indices of index chunk i address
merger_adjust(a, common_attribute_chunking, i) ==
  Len(attribute_data_chunk(a, IF common_attribute_chunking THEN 0 ELSE i))

Merger_set_data(a, b, common_attribute_chunking) ==
  LET number_attribute_chunks == t_max(Len(a.attribute_data_chunks), Len(b.attribute_data_chunks))
      number_index_chunks == t_max(Len(a.index_data_chunks), Len(b.index_data_chunks))
      number_z_ranges == t_max(Len(a.z_ranges), Len(b.z_ranges))
  IN PainterAttributeData(
       [i1 \in 1..number_attribute_chunks |->
          (IF common_attribute_chunking THEN attribute_data_chunk(a, i1 - 1)
           ELSE post_process_attributes(b, i1 - 1, attribute_data_chunk(a, i1 - 1)))
          \o attribute_data_chunk(b, i1 - 1)],
       [i1 \in 1..number_index_chunks |->
          LET src == index_data_chunk(b, i1 - 1)
              adjust == merger_adjust(a, common_attribute_chunking, i1 - 1)
          IN index_data_chunk(a, i1 - 1) \o [k \in DOMAIN src |-> src[k] + adjust]],
       [i1 \in 1..number_z_ranges |-> compute_z_range(a, b, i1 - 1)])

\* the two lists appended, without the std::set
merge_winding_lists_appended(inA, inB) == inA \o inB

\* std::set<int> of both lists, copied out in order
merge_winding_lists(inA, inB) == SortedSeqOfSet(Range(inA) \cup Range(inB))

\* ---------------------------------------------------------------------
\* SubsetPrivate: construction of the hierarchy
\* ---------------------------------------------------------------------
bounding_path_of(bb) ==
  <<<<bb.m_min[1], bb.m_min[2]>>, <<bb.m_min[1], bb.m_max[2]>>,
    <<bb.m_max[1], bb.m_max[2]>>, <<bb.m_max[1], bb.m_min[2]>>>>

\* m_ID taken from out_values.size() after the push_back
SubsetPrivate_m_ID_after_push(out_values) == Len(out_values) + 1

\* the initializer m_ID(out_values.size())
SubsetPrivate_m_ID(out_values) == Len(out_values)

\* the children are set and the SubPath is kept
SubsetPrivate_with_children_keeping_sub_path(node, c0, c1) ==
  [node EXCEPT !.m_children = <<c0, c1>>]

\* the branch of the constructor that creates the two children: m_children
\* are set, then FASTUIDRAWdelete(m_sub_path) and m_sub_path = nullptr
SubsetPrivate_with_children(node, c0, c1) ==
  [node EXCEPT !.m_children = <<c0, c1>>, !.m_sub_path = nullptr]

\* the budget max_recursion - 1 handed to the constructors of both children
children_max_recursion(max_recursion) == max_recursion - 1

\* the test is made on the budget alone
SubsetPrivate_tries_split_on_budget_alone(Q, max_recursion) == max_recursion > 0

\* a budget of 0 still allows the split
SubsetPrivate_tries_split_at_budget_zero(Q, max_recursion) ==
  max_recursion >= 0 /\ Q.m_num_points > points_per_subset

\* the test max_recursion > 0 && m_sub_path->num_points() > points_per_subset
SubsetPrivate_tries_split(Q, max_recursion) ==
  max_recursion > 0 /\ Q.m_num_points > points_per_subset

\* SubsetPrivate(Q, max_recursion, out_values): returns out_values with the
\* node and its whole subtree appended.  The field B of a node records, once
\* make_ready_from_sub_path has run on it, what its locals held: of the
\* builder B triangulation_failed(), the outcome of the test m_hoard.empty()
\* and the triangles of m_hoard, and what fill_indices returned
RECURSIVE SubsetPrivate(_, _, _)
SubsetPrivate(Q, max_recursion, out_values) ==
  LET id == Len(out_values)
      this == [m_ID |-> SubsetPrivate_m_ID(out_values),
               m_bounds |-> Q.m_bounds,
               m_bounds_f |-> Q.m_bounds,
               m_bounding_path |-> bounding_path_of(Q.m_bounds),
               m_painter_data |-> nullptr,
               m_winding_numbers |-> << >>,
               m_fuzz_painter_data |-> nullptr,
               m_sizes_ready |-> FALSE,
               m_num_attributes |-> Indeterminate,
               m_largest_index_block |-> Indeterminate,
               m_aa_largest_attribute_block |-> Indeterminate,
               m_aa_largest_index_block |-> Indeterminate,
               m_sub_path |-> <<Q>>,
               m_children |-> <<-1, -1>>,
               m_splitting_coordinate |-> -1,
               B |-> nullptr]
      out1 == Append(out_values, this)
  IN IF SubsetPrivate_tries_split(Q, max_recursion)
     THEN With(split(Q), LAMBDA sp :
            IF sp.C[1].m_num_points < Q.m_num_points \/ sp.C[2].m_num_points < Q.m_num_points
            THEN With(SubsetPrivate(sp.C[1], children_max_recursion(max_recursion), out1),
                      LAMBDA out2 :
                   [SubsetPrivate(sp.C[2], children_max_recursion(max_recursion), out2)
                      EXCEPT ![id + 1] =
                      [SubsetPrivate_with_children(@, id + 1, Len(out2))
                         EXCEPT !.m_splitting_coordinate = sp.coord]])
            ELSE [out1 EXCEPT ![id + 1].m_splitting_coordinate = sp.coord])
     ELSE out1

create_root_subset(P) == SubsetPrivate(P, recursion_depth, << >>)

\* FilledPathPrivate(P): m_subsets; m_root is m_subsets[0]
FilledPathPrivate(P) == create_root_subset(SubPathFromTessellatedPath(P))

\* ---------------------------------------------------------------------
\* Input paths (TessellatedPath values) the model is run on
\* ---------------------------------------------------------------------
\* the tessellation of a straight edge from a to b into n segments
EdgeLine(a, b, n) ==
  [k \in 1..(n + 1) |-> <<a[1] + CDiv((b[1] - a[1]) * (k - 1), n),
                          a[2] + CDiv((b[2] - a[2]) * (k - 1), n)>>]

\* one closed contour around the rectangle [x0,x1]x[y0,y1], n segments a side
RectContour(x0, y0, x1, y1, n) ==
  <<EdgeLine(<<x0, y0>>, <<x1, y0>>, n), EdgeLine(<<x1, y0>>, <<x1, y1>>, n),
    EdgeLine(<<x1, y1>>, <<x0, y1>>, n), EdgeLine(<<x0, y1>>, <<x0, y0>>, n)>>

\* a contour around [0,4]x[0,100]: l segments down the side x = 0, r up
\* the side x = 4, the point (2,0) on the bottom
StripContour(l, r) ==
  <<<<<<0, 0>>, <<2, 0>>, <<4, 0>>>>, EdgeLine(<<4, 0>>, <<4, 100>>, r),
    <<<<4, 100>>, <<0, 100>>>>, EdgeLine(<<0, 100>>, <<0, 0>>, l)>>

TriangleContour ==
  <<<<<<100, 0>>, <<100, 100>>>>, <<<<100, 100>>, <<50, 50>>>>, <<<<50, 50>>, <<100, 0>>>>>>

\* one edge of n points alternating between the corner regions at (0,0)
\* and (100,100), and the closing edge
ZigZagContour(n) ==
  <<[k \in 1..n |->
       IF k % 2 = 1 THEN <<(k \div 2) % 10, ((k \div 2) \div 10) % 10>>
       ELSE <<100 - ((k \div 2) % 10), 100 - (((k \div 2) \div 10) % 10)>>],
    <<<<100, 100>>, <<0, 0>>>>>>

\* 1: no contour; 2: four points, one leaf; 3: 72 points, the root and two
\* leaves; 4: 70 points no split separates, one leaf; 5: seven nodes, node 1
\* split by the aspect-ratio rule
InputPaths ==
  << << >>,
     <<RectContour(0, 0, 100, 100, 1)>>,
     <<RectContour(0, 0, 100, 100, 18)>>,
     <<ZigZagContour(70)>>,
     <<TriangleContour, StripContour(64, 61)>> >>

\* the trees FilledPathPrivate builds for the input paths
InputTrees == [k \in DOMAIN InputPaths |-> FilledPathPrivate(InputPaths[k])]

\* ---------------------------------------------------------------------
\* The triangulator (fastuidraw_glu tessellator) as the tesser sees it:
\* for the polygon of one SubPath it makes a sequence of callbacks
\* ---------------------------------------------------------------------
\* number of behaviours of the triangulator the model is run with
NumTriangulators == 7

\* one kind of callback sequence per behaviour
NumScriptKinds == NumTriangulators

ev_begin(w) == [type |-> "begin", winding |-> w]

ev_vertex(id) == [type |-> "vertex", id |-> id, sliver |-> FALSE]

ev_sliver(id) == [type |-> "vertex", id |-> id, sliver |-> TRUE]

ev_triangle(a, b, c) == <<ev_vertex(a), ev_vertex(b), ev_vertex(c)>>

ev_monotone(w, ids, wids) ==
  [type |-> "monotone", winding |-> w, vertex_ids |-> ids, winding_ids |-> wids]

ev_boundary(mx, my) == [type |-> "boundary", is_max_x |-> mx, is_max_y |-> my]

ev_combine(x, y, data, num, den) ==
  [type |-> "combine", x |-> x, y |-> y, data |-> data, num |-> num, den |-> den]

\* kind 1: one component of winding 1
\* kind 2: components of windings -1, 0, 1 and 2, the one of winding 0
\*         reaching a corner of the bounding box
\* kind 3: one good triangle, then a triangle with the null client id
\* kind 4: every vertex is the null client id
\* kind 5: windings -2, 2 and -1 with a combined vertex, a sliver triangle
\*         and a triangle with a repeated vertex
\* kind 6: no callback at all
\* kind 7: windings 1 and 3, the one of winding 3 with a boundary of drawn
\*         edges and no triangle but one with a repeated vertex
\* n is the count of client ids handed to the triangulator
TriangulatorEvents(kind, n) ==
  LET null == FASTUIDRAW_GLU_nullptr_CLIENT_ID
      none == << >>
  IN IF n < 4 THEN (IF kind = 4 THEN <<ev_begin(1)>> \o ev_triangle(null, null, null) ELSE none)
     ELSE CASE kind = 1 ->
                 <<ev_begin(1)>> \o ev_triangle(0, 1, 2)
                 \o <<ev_monotone(1, <<0, 1, 2>>, <<0, 0, 0>>)>>
            [] kind = 2 ->
                 <<ev_begin(-1)>> \o ev_triangle(0, 1, 2)
                 \o <<ev_monotone(-1, <<0, 1, 2>>, <<0, -1, 0>>)>>
                 \o <<ev_begin(2)>> \o ev_triangle(1, 2, 3) \o ev_triangle(0, 1, 3)
                 \o <<ev_monotone(2, <<0, 1, 2, 3>>, <<1, 1, 2, 1>>)>>
                 \o <<ev_boundary(TRUE, TRUE), ev_begin(0)>> \o ev_triangle(0, 1, OUT_DATA_ID)
                 \o <<ev_monotone(0, <<0, 1, 3>>, <<1, 0, 0>>)>>
                 \o <<ev_begin(1)>> \o ev_triangle(0, 2, 3)
                 \o <<ev_monotone(1, <<0, 2, 3>>, <<2, 0, 2>>)>>
            [] kind = 3 ->
                 <<ev_begin(1)>> \o ev_triangle(0, 1, 2) \o ev_triangle(0, null, 2)
                 \o <<ev_monotone(1, <<0, 1, 2>>, <<0, 0, 0>>)>>
            [] kind = 4 ->
                 <<ev_begin(1)>> \o ev_triangle(null, null, null)
            [] kind = 5 ->
                 <<ev_begin(-2)>> \o ev_triangle(0, 1, 2)
                 \o <<ev_sliver(1), ev_sliver(2), ev_sliver(3)>>
                 \o <<ev_monotone(-2, <<0, 1, 2>>, <<-1, -1, -2>>)>>
                 \o <<ev_begin(2)>> \o ev_triangle(1, 2, 3) \o ev_triangle(0, 0, 1)
                 \o <<ev_combine(box_dim \div 2, box_dim \div 2, <<0, 1, 2, 3>>, <<1, 1, 1, 1>>, 4)>>
                 \o <<ev_begin(-1)>> \o ev_triangle(0, 1, OUT_DATA_ID)
                 \o <<ev_monotone(-1, <<0, 1, 3>>, <<0, 0, -2>>)>>
            [] kind = 7 ->
                 <<ev_begin(3)>> \o ev_triangle(0, 0, 1)
                 \o <<ev_monotone(3, <<0, 1, 3>>, <<1, 1, 0>>)>>
                 \o <<ev_begin(1)>> \o ev_triangle(0, 1, 2)
                 \o <<ev_monotone(1, <<0, 1, 2>>, <<3, 0, 0>>)>>
            [] OTHER -> none

\* the behaviour glu of the triangulator on the SubPath of node id
ScriptKind(glu, id) == ((glu - 1 + id) % NumScriptKinds) + 1

\* builder B(*m_sub_path, filler.m_points)
builder(Q, kind) ==
  With(generate_path(PointHoard(Q.m_bounds), Q), LAMBDA gp :
    builder_from(gp, tesser_run(tesser(gp.H, gp.path, gp.w),
                                TriangulatorEvents(kind, Len(gp.H.m_pts)))))

\* ---------------------------------------------------------------------
\* SubsetPrivate: realization
\* ---------------------------------------------------------------------
\* make_ready_from_sub_path from the builder B on: fill_indices, the two
\* set_data calls and the sizes
make_ready_from_builder(node, B) ==
  With(fill_indices(B), LAMBDA F :
  With(FillAttributeDataFiller(B.m_points.m_pts, F), LAMBDA filler :
  With(SortedSeqOfSet(DOMAIN filler.m_per_fill), LAMBDA windings :
  With(IF windings # << >>
       THEN Edge_set_data(windings, filler.m_points, B)
       ELSE PainterAttributeData(<< >>, << >>, << >>), LAMBDA fuzz :
    [node EXCEPT
       !.m_sizes_ready = TRUE,
       !.m_largest_index_block =
          t_max(t_max(Len(filler.m_nonzero_winding_indices), Len(filler.m_zero_winding_indices)),
                t_max(Len(filler.m_odd_winding_indices), Len(filler.m_even_winding_indices))),
       !.m_num_attributes = Len(filler.m_points),
       !.m_winding_numbers = windings,
       !.m_painter_data = <<Fill_set_data(filler)>>,
       !.m_fuzz_painter_data = <<fuzz>>,
       !.m_aa_largest_attribute_block =
          IF windings # << >> THEN largest_attribute_chunk(fuzz) ELSE @,
       !.m_aa_largest_index_block =
          IF windings # << >> THEN largest_index_chunk(fuzz) ELSE @,
       !.B = <<[triangulation_failed |-> B.m_failed, hoard_empty |-> B.hoard_empty,
                winding_offset |-> B.winding_offset,
                tessellated |-> B.tessellated,
                m_triangles |-> [w \in DOMAIN B.m_hoard |-> B.m_hoard[w].m_triangles],
                m_indices |-> F.indices,
                even_non_zero_start |-> F.even_non_zero_start,
                zero_start |-> F.zero_start]>>]))))

\* make_ready_from_sub_path without FASTUIDRAWdelete(m_sub_path) and
\* m_sub_path = nullptr
make_ready_from_sub_path_keeping_sub_path(node, kind) ==
  make_ready_from_builder(node, builder(node.m_sub_path[1], kind))

\* make_ready_from_sub_path on the node record, the triangulator behaving
\* as kind
make_ready_from_sub_path(node, kind) ==
  [make_ready_from_builder(node, builder(node.m_sub_path[1], kind)) EXCEPT
     !.m_sub_path = nullptr]

\* make_ready_from_sub_path tabulated over the leaves of InputTrees and the
\* behaviours of the triangulator
SubPathRealizations ==
  LET leaves == UNION {{InputTrees[k][i] : i \in {j \in DOMAIN InputTrees[k] :
                                                   InputTrees[k][j].m_sub_path # nullptr}} :
                       k \in DOMAIN InputTrees}
  IN [x \in leaves \X (1..NumScriptKinds) |-> make_ready_from_sub_path(x[1], x[2])] @@ << >>

\* make_ready_from_sub_path(node, kind), read from the table when it is there
realized_from_sub_path(node, kind) ==
  IF <<node, kind>> \in DOMAIN SubPathRealizations
  THEN SubPathRealizations[<<node, kind>>]
  ELSE make_ready_from_sub_path(node, kind)

\* the node after make_ready_from_children, its children c0 and c1 ready
merge_children(node, c0, c1) ==
  With(Merger_set_data(c0.m_painter_data[1], c1.m_painter_data[1], TRUE), LAMBDA pd :
  With(Merger_set_data(c0.m_fuzz_painter_data[1], c1.m_fuzz_painter_data[1], FALSE), LAMBDA fz :
    [node EXCEPT
       !.m_painter_data = <<pd>>,
       !.m_winding_numbers = merge_winding_lists(c0.m_winding_numbers, c1.m_winding_numbers),
       !.m_fuzz_painter_data = <<fz>>,
       !.m_sizes_ready = TRUE,
       !.m_num_attributes = largest_attribute_chunk(pd),
       !.m_largest_index_block = largest_index_chunk(pd),
       !.m_aa_largest_attribute_block = largest_attribute_chunk(fz),
       !.m_aa_largest_index_block = largest_index_chunk(fz)]))

\* make_ready() of node id in the tree S (m_subsets); make_ready_from_children
\* is the last branch
RECURSIVE make_ready(_, _, _)
make_ready(S, id, glu) ==
  IF S[id + 1].m_painter_data # nullptr THEN S
  ELSE IF S[id + 1].m_sub_path # nullptr
  THEN [S EXCEPT ![id + 1] = realized_from_sub_path(@, ScriptKind(glu, id))]
  ELSE With(S[id + 1].m_children, LAMBDA c :
       With(make_ready(make_ready(S, c[1], glu), c[2], glu), LAMBDA S2 :
         [S2 EXCEPT ![id + 1] = merge_children(@, S2[c[1] + 1], S2[c[2] + 1])]))

\* the largest of the children's blocks taken for the three block sizes
ready_sizes_from_children_largest(node, c0, c1) ==
  [node EXCEPT
     !.m_sizes_ready = TRUE,
     !.m_num_attributes = c0.m_num_attributes + c1.m_num_attributes,
     !.m_largest_index_block = t_max(c0.m_largest_index_block, c1.m_largest_index_block),
     !.m_aa_largest_attribute_block =
        t_max(c0.m_aa_largest_attribute_block, c1.m_aa_largest_attribute_block),
     !.m_aa_largest_index_block =
        t_max(c0.m_aa_largest_index_block, c1.m_aa_largest_index_block)]

ready_sizes_from_children(node, c0, c1) ==
  [node EXCEPT
     !.m_sizes_ready = TRUE,
     !.m_num_attributes = c0.m_num_attributes + c1.m_num_attributes,
     !.m_largest_index_block = c0.m_largest_index_block + c1.m_largest_index_block,
     !.m_aa_largest_attribute_block =
        c0.m_aa_largest_attribute_block + c1.m_aa_largest_attribute_block,
     !.m_aa_largest_index_block = c0.m_aa_largest_index_block + c1.m_aa_largest_index_block]

\* ---------------------------------------------------------------------
\* select_subsets
\* ---------------------------------------------------------------------
\* clip_equations[i] * clip_matrix_local: a row vector times the matrix,
\* clip_matrix_local[r][c] being row r, column c
vec3_times_float3x3(v, M) ==
  [c \in 1..3 |-> v[1] * M[1][c] + v[2] * M[2][c] + v[3] * M[3][c]]

\* clipping works on the doubled grid: the vertices it makes are
\* intersections of the sides of the rectangle and of clip lines
inflated_polygon(bb) ==
  <<<<2 * bb.m_min[1], 2 * bb.m_min[2]>>, <<2 * bb.m_min[1], 2 * bb.m_max[2]>>,
    <<2 * bb.m_max[1], 2 * bb.m_max[2]>>, <<2 * bb.m_max[1], 2 * bb.m_min[2]>>>>

\* twice clip_eq . (x, y, 1) for the point (X/2, Y/2)
clip_distance(clip_eq, P) == clip_eq[1] * P[1] + clip_eq[2] * P[2] + 2 * clip_eq[3]

\* clip_against_plane: [unclipped, pts]
clip_against_plane(clip_eq, pts) ==
  With([i \in DOMAIN pts |-> clip_distance(clip_eq, pts[i])], LAMBDA d :
  LET nxt(i) == IF i = Len(pts) THEN 1 ELSE i + 1
      cross(i) == LET a == pts[i]
                      b == pts[nxt(i)]
                      den == d[i] - d[nxt(i)]
                  IN <<a[1] + CDiv((b[1] - a[1]) * d[i], den),
                       a[2] + CDiv((b[2] - a[2]) * d[i], den)>>
  IN IF \A i \in DOMAIN pts : d[i] < 0 THEN [unclipped |-> FALSE, pts |-> << >>]
     ELSE IF \A i \in DOMAIN pts : d[i] >= 0 THEN [unclipped |-> TRUE, pts |-> pts]
     ELSE [unclipped |-> FALSE,
           pts |-> Flatten([i \in DOMAIN pts |->
                     (IF d[i] >= 0 THEN <<pts[i]>> ELSE << >>)
                     \o (IF (d[i] >= 0) # (d[nxt(i)] >= 0) THEN <<cross(i)>> ELSE << >>)])])

\* clip_against_planes: [unclipped, clipped_rect]
RECURSIVE clip_against_planes(_, _)
clip_against_planes(clip_eqs, pts) ==
  IF clip_eqs = << >> THEN [unclipped |-> TRUE, clipped_rect |-> pts]
  ELSE With(clip_against_plane(Head(clip_eqs), pts), LAMBDA R :
       With(clip_against_planes(Tail(clip_eqs), R.pts), LAMBDA rest :
         [unclipped |-> R.unclipped /\ rest.unclipped, clipped_rect |-> rest.clipped_rect]))

\* ready_sizes_from_children() called without the test of m_sizes_ready
sizes_after_children_unguarded(node, c0, c1) ==
  ready_sizes_from_children(node, c0, c1)

\* the merged data built, as make_ready_from_children does, when both
\* children have theirs
sizes_after_children_merging(node, c0, c1) ==
  IF node.m_sizes_ready THEN node
  ELSE IF c0.m_painter_data # nullptr /\ c1.m_painter_data # nullptr
  THEN merge_children(node, c0, c1)
  ELSE ready_sizes_from_children(node, c0, c1)

\* if (!m_sizes_ready) ready_sizes_from_children(), the children visited
sizes_after_children(node, c0, c1) ==
  IF ~node.m_sizes_ready THEN ready_sizes_from_children(node, c0, c1) ELSE node

\* the size test without the two comparisons with max_index_cnt
fits_caps_attributes_only(node, max_attribute_cnt, max_index_cnt) ==
  /\ node.m_sizes_ready
  /\ node.m_num_attributes <= max_attribute_cnt
  /\ node.m_aa_largest_attribute_block <= max_attribute_cnt

\* the size test of select_subsets_all_unculled
fits_caps(node, max_attribute_cnt, max_index_cnt) ==
  /\ node.m_sizes_ready
  /\ node.m_num_attributes <= max_attribute_cnt
  /\ node.m_largest_index_block <= max_index_cnt
  /\ node.m_aa_largest_attribute_block <= max_attribute_cnt
  /\ node.m_aa_largest_index_block <= max_index_cnt

\* both select operators take and return R = [S, dst, pruned, unculled]:
\* the tree, the ids written so far (current is Len(dst)), the ids of the
\* nodes select_subsets_implement returned from as completely clipped and
\* the ids of the nodes select_subsets_all_unculled was called on
RECURSIVE select_subsets_all_unculled(_, _, _, _, _)
select_subsets_all_unculled(R, id, max_attribute_cnt, max_index_cnt, glu) ==
  With(R.S[id + 1], LAMBDA n0 :
  With(IF ~n0.m_sizes_ready /\ n0.m_children[1] = -1 /\ n0.m_sub_path # nullptr
       THEN realized_from_sub_path(n0, ScriptKind(glu, id))
       ELSE n0, LAMBDA node :
  With([R EXCEPT !.S[id + 1] = node, !.unculled = Append(@, id)], LAMBDA R0 :
    IF fits_caps(node, max_attribute_cnt, max_index_cnt)
    THEN [R0 EXCEPT !.dst = Append(@, node.m_ID)]
    ELSE IF node.m_children[1] # -1
    THEN With(select_subsets_all_unculled(
                select_subsets_all_unculled(R0, node.m_children[1],
                                            max_attribute_cnt, max_index_cnt, glu),
                node.m_children[2], max_attribute_cnt, max_index_cnt, glu), LAMBDA R2 :
           [R2 EXCEPT !.S[id + 1] =
              sizes_after_children(@, R2.S[node.m_children[1] + 1],
                                   R2.S[node.m_children[2] + 1])])
    ELSE R0)))

\* the test taken as failing whatever is left of the rectangle
completely_clipped_never(m_clipped_rect) == FALSE

\* scratch.m_clipped_rect.empty()
completely_clipped(m_clipped_rect) == m_clipped_rect = << >>

RECURSIVE select_subsets_implement(_, _, _, _, _, _)
select_subsets_implement(R, id, m_adjusted_clip_eqs, max_attribute_cnt, max_index_cnt, glu) ==
  With(R.S[id + 1], LAMBDA node :
  With(clip_against_planes(m_adjusted_clip_eqs, inflated_polygon(node.m_bounds_f)),
       LAMBDA clip :
    IF completely_clipped(clip.clipped_rect) THEN [R EXCEPT !.pruned = Append(@, id)]
    ELSE IF clip.unclipped \/ node.m_children[1] = -1
    THEN select_subsets_all_unculled(R, id, max_attribute_cnt, max_index_cnt, glu)
    ELSE select_subsets_implement(
           select_subsets_implement(R, node.m_children[1], m_adjusted_clip_eqs,
                                    max_attribute_cnt, max_index_cnt, glu),
           node.m_children[2], m_adjusted_clip_eqs, max_attribute_cnt, max_index_cnt, glu)))

\* the clip equations taken as they are, without clip_matrix_local
adjusted_clip_eqs_untransformed(clip_equations, clip_matrix_local) == clip_equations

adjusted_clip_eqs(clip_equations, clip_matrix_local) ==
  [i \in DOMAIN clip_equations |-> vec3_times_float3x3(clip_equations[i], clip_matrix_local)]

\* FilledPath::select_subsets on m_root = m_subsets[0]
select_subsets(S, clip_equations, clip_matrix_local, max_attribute_cnt, max_index_cnt, glu) ==
  select_subsets_implement([S |-> S, dst |-> << >>, pruned |-> << >>, unculled |-> << >>], 0,
                           adjusted_clip_eqs(clip_equations, clip_matrix_local),
                           max_attribute_cnt, max_index_cnt, glu)

\* ---------------------------------------------------------------------
\* Arguments of select_subsets
\* ---------------------------------------------------------------------
IdentityMatrix == <<<<1, 0, 0>>, <<0, 1, 0>>, <<0, 0, 1>>>>

TranslationMatrix(tx, ty) == <<<<1, 0, tx>>, <<0, 1, ty>>, <<0, 0, 1>>>>

\* <<clip_equations, clip_matrix_local>>: an equation <<a, b, c>> keeps the
\* clip coordinates with a x + b y + c w >= 0
ClipArguments ==
  { << << >>, IdentityMatrix >>,
    << <<<<1, 0, -50>>>>, IdentityMatrix >>,
    << <<<<0, 1, -60>>>>, TranslationMatrix(0, 30) >>,
    << <<<<1, 0, -200>>>>, IdentityMatrix >>,
    << <<<<1, 1, -150>>, <<0, -1, 120>>>>, TranslationMatrix(10, 0) >> }

\* <<max_attribute_cnt, max_index_cnt>>
SizeCaps == {<<1000, 1000>>, <<64, 1000>>, <<1000, 8>>}

\* ---------------------------------------------------------------------
\* The state machine of one FilledPath
\* ---------------------------------------------------------------------
\* largest |w| of the small windings given to the chunk encodings
MaxWindingInput == 4

VARIABLES
  m_subsets,   \* FilledPathPrivate::m_subsets, m_root being m_subsets[0]
  glu,         \* which behaviour the triangulator has
  m_call,      \* the call the caller has just made: arguments and results
  w_in,        \* the windings handed to a chunk encoding
  chunk_out,   \* what the chunk encoding returned for them
  contour_in,  \* the contour handed to a contour operation, f naming it
  contour_out, \* what the contour operation returned (nullptr before it ran)
  m_d,         \* ColorStopAtlas::m_d, the ColorStopAtlasPrivate (nullptr: no atlas)
  allocations, \* the live allocations of the atlas: location and width of each
  atlas_call   \* the call last made on the atlas: arguments and results

vars == <<m_subsets, glu, m_call, w_in, chunk_out, contour_in, contour_out,
          m_d, allocations, atlas_call>>

\* the variables of the ColorStopAtlas
atlas_vars == <<m_d, allocations, atlas_call>>

NodeIDs == 0..(Len(m_subsets) - 1)

\* the caller is between two calls
Idle == [op |-> "idle"]

Init ==
  /\ \E k \in DOMAIN InputTrees : m_subsets = InputTrees[k]
  /\ glu \in 1..NumTriangulators
  /\ m_call = Idle
  /\ w_in = <<0, 0>>
  /\ chunk_out = << >>
  /\ contour_in = nullptr
  /\ contour_out = nullptr
  /\ m_d = nullptr
  /\ allocations = {}
  /\ atlas_call = [op |-> "idle"]

\* FilledPath::subset(I)
Subset(I) ==
  /\ m_call = Idle
  /\ m_subsets' = make_ready(m_subsets, I, glu)
  /\ m_call' = [op |-> "subset", I |-> I,
                was_ready |-> m_subsets[I + 1].m_painter_data # nullptr]
  /\ UNCHANGED <<glu, w_in, chunk_out, contour_in, contour_out, atlas_vars>>

\* FilledPath::select_subsets(work_room, clip_equations, clip_matrix_local,
\*                            max_attribute_cnt, max_index_cnt, dst)
SelectSubsets(clip_equations, clip_matrix_local, max_attribute_cnt, max_index_cnt) ==
  /\ m_call = Idle
  /\ \E R \in {select_subsets(m_subsets, clip_equations, clip_matrix_local,
                               max_attribute_cnt, max_index_cnt, glu)} :
       /\ m_subsets' = R.S
       /\ m_call' = [op |-> "select_subsets",
                     clip_equations |-> clip_equations,
                     clip_matrix_local |-> clip_matrix_local,
                     max_attribute_cnt |-> max_attribute_cnt,
                     max_index_cnt |-> max_index_cnt,
                     dst |-> R.dst,
                     return_value |-> Len(R.dst),
                     pruned |-> R.pruned,
                     unculled |-> R.unculled]
  /\ UNCHANGED <<glu, w_in, chunk_out, contour_in, contour_out, atlas_vars>>

\* FilledPath::number_subsets()
NumberSubsets ==
  /\ m_call = Idle
  /\ m_call' = [op |-> "number_subsets", return_value |-> Len(m_subsets)]
  /\ UNCHANGED <<m_subsets, glu, w_in, chunk_out, contour_in, contour_out, atlas_vars>>

\* the caller is done with the results of its call
Return ==
  /\ m_call # Idle
  /\ m_call' = Idle
  /\ UNCHANGED <<m_subsets, glu, w_in, chunk_out, contour_in, contour_out, atlas_vars>>

Next ==
  \/ \E I \in NodeIDs : Subset(I)
  \/ \E clip \in ClipArguments, caps \in SizeCaps :
       SelectSubsets(clip[1], clip[2], caps[1], caps[2])
  \/ NumberSubsets
  \/ Return

Spec == Init /\ [][Next]_vars

\* ---------------------------------------------------------------------
\* The static chunk encodings, applied to a pair of windings
\* ---------------------------------------------------------------------
\* small windings and the windings at which the int arithmetic overflows
WindingInputs ==
  ((-MaxWindingInput)..MaxWindingInput)
  \cup {INT_MIN, INT_MIN + 1, -TwoTo30, TwoTo30 - 2, TwoTo30 - 1, TwoTo30, INT_MAX - 1, INT_MAX}

\* what a signed overflow does in the build: the arithmetic wraps, or the
\* build traps it and the call does not return
OverflowOutcomes == {"wrap", "trap"}

\* fill_chunk_from_winding_number overflows in abs, in 2 * (value - 1) or
\* in the sum
fill_chunk_overflows(w) ==
  w # 0 /\ (w = INT_MIN \/ int_abs(w) >= TwoTo30 - 1)

\* signed_to_unsigned overflows in t_abs or in 2 * v
signed_to_unsigned_overflows(w) == w = INT_MIN \/ int_abs(w) >= TwoTo30

InitChunks ==
  /\ m_subsets = << >>
  /\ glu = 1
  /\ m_call = Idle
  /\ w_in \in WindingInputs \X WindingInputs
  /\ chunk_out = << >>
  /\ contour_in = nullptr
  /\ contour_out = nullptr
  /\ m_d = nullptr
  /\ allocations = {}
  /\ atlas_call = [op |-> "idle"]

FillChunkFromWindingNumber(ub) ==
  /\ chunk_out = << >>
  /\ chunk_out' = [k \in 1..2 |->
                     [f |-> "fill_chunk_from_winding_number",
                      returned |-> ~(fill_chunk_overflows(w_in[k]) /\ ub = "trap"),
                      value |-> fill_chunk_from_winding_number(w_in[k])]]
  /\ UNCHANGED <<m_subsets, glu, m_call, w_in, contour_in, contour_out, atlas_vars>>

AaFuzzChunkFromWindingNumber(ub) ==
  /\ chunk_out = << >>
  /\ chunk_out' = [k \in 1..2 |->
                     [f |-> "aa_fuzz_chunk_from_winding_number",
                      returned |-> ~(signed_to_unsigned_overflows(w_in[k]) /\ ub = "trap"),
                      value |-> aa_fuzz_chunk_from_winding_number(w_in[k])]]
  /\ UNCHANGED <<m_subsets, glu, m_call, w_in, contour_in, contour_out, atlas_vars>>

NextChunks ==
  \/ \E ub \in OverflowOutcomes : FillChunkFromWindingNumber(ub)
  \/ \E ub \in OverflowOutcomes : AaFuzzChunkFromWindingNumber(ub)

SpecChunks == InitChunks /\ [][NextChunks]_vars

\* ---------------------------------------------------------------------
\* The contour operations of PointHoard and SubPath, applied to one contour
\* ---------------------------------------------------------------------
NumVertexIds == 3

MaxUnloopLen == 6

\* what generate_contour leaves in its output list: at least 3 vertex ids,
\* consecutive ones distinct, the last one not the first one
UnloopInputs ==
  {C \in UNION {[1..n -> [m_vertex : 0..(NumVertexIds - 1), m_flags : {0}]] :
                  n \in 3..MaxUnloopLen} :
     /\ \A k \in 1..(Len(C) - 1) : C[k].m_vertex # C[k + 1].m_vertex
     /\ C[1].m_vertex # C[Len(C)].m_vertex}

MaxSubContourLen == 2

MaxReduceLen == 4

MaxPathContours == 2

\* the flags the SubContourPoint constructor accepts
GoodFlags == {f \in 0..15 : good_boundary_bits(f)}

\* the box the sub-contours lie in and a point of it carrying the flags f
ContourBox == BoundingBox(<<0, 0>>, <<4, 4>>)

PointWithFlags(f) ==
  SubContourPoint(<<IF HasBit(f, on_min_x_boundary) THEN 0
                    ELSE IF HasBit(f, on_max_x_boundary) THEN 4 ELSE 2,
                    IF HasBit(f, on_min_y_boundary) THEN 0
                    ELSE IF HasBit(f, on_max_y_boundary) THEN 4 ELSE 2>>, f)

\* the contour through the four corners of the box and a contour inside it
CornerLoop ==
  <<PointWithFlags(on_min_x_boundary + on_min_y_boundary),
    PointWithFlags(on_min_x_boundary + on_max_y_boundary),
    PointWithFlags(on_max_x_boundary + on_max_y_boundary),
    PointWithFlags(on_max_x_boundary + on_min_y_boundary)>>

BackwardCornerLoop == [k \in 1..4 |-> CornerLoop[5 - k]]

SideLoop ==
  <<CornerLoop[1], CornerLoop[2], SubContourPoint(<<3, 2>>, 0)>>

InnerLoop ==
  <<SubContourPoint(<<1, 1>>, 0), SubContourPoint(<<3, 1>>, 0), SubContourPoint(<<2, 3>>, 0)>>

\* the contours handed to the SubPath constructor: a contour of up to
\* MaxSubContourLen points with any good flags, alone or before another one
SubPathInputs ==
  {<<C>> \o rest :
     C \in UNION {[1..n -> {PointWithFlags(f) : f \in GoodFlags}] : n \in 1..MaxSubContourLen},
     rest \in {<< >>, <<CornerLoop>>, <<InnerLoop>>}}

\* twice around the corners
TwiceAroundLoop == CornerLoop \o CornerLoop

\* along three corners, back to the first and on to the second
BackAndForthLoop ==
  <<CornerLoop[1], CornerLoop[2], CornerLoop[3], CornerLoop[2], CornerLoop[1], CornerLoop[2]>>

\* the contours of the SubPaths handed to generate_path: up to
\* MaxPathContours loops, each around the corners in either direction,
\* inside the box, along one side and back through the inside, twice
\* around the corners, or back and forth along three corners
PathInputs ==
  UNION {[1..n -> {CornerLoop, BackwardCornerLoop, InnerLoop, SideLoop, TwiceAroundLoop,
                   BackAndForthLoop}] : n \in 0..MaxPathContours}

\* the contours handed to split_contour: up to MaxSubContourLen points
\* before, on or after the splitting value on each axis, with any good flags
SplitPositions == {<<0, 3>>, <<2, 2>>, <<4, 1>>}

SplitInputs ==
  UNION {[1..n -> {SubContourPoint(q, f) : q \in SplitPositions, f \in GoodFlags}] :
           n \in 1..MaxSubContourLen}

MaxDelivered == 3

\* grid points next to the centre of the grid and at its corners, one of
\* them under two vertex ids
FudgeIpts ==
  <<<<box_dim \div 2 - 1, box_dim \div 2 - 1>>, <<box_dim \div 2, box_dim \div 2>>,
    <<box_dim \div 2 - 1, box_dim \div 2>>, <<1, 1>>, <<box_dim + 1, box_dim + 1>>,
    <<box_dim \div 2, box_dim \div 2>>>>

FudgeHoard ==
  [PointHoard(ContourBox) EXCEPT !.m_ipts = FudgeIpts,
                                 !.m_pts = [k \in DOMAIN FudgeIpts |->
                                              unapply(ContourBox, FudgeIpts[k])]]

\* how many vertices the contours before this one delivered: few, or about
\* half of fudge_per_unit
PointCounts ==
  {0, 1, fudge_per_unit \div 2 - 2, fudge_per_unit \div 2 - 1, fudge_per_unit \div 2}

\* the contours handed to tesser::add_contour
DeliveredContours ==
  UNION {[1..n -> {ContourPoint(v, 0) : v \in 0..(Len(FudgeIpts) - 1)}] :
           n \in 1..MaxDelivered}

\* the contours handed to reduce_contour: up to MaxReduceLen vertices whose
\* flags are those of a corner, of one side or none (boundary_progress
\* tells the flags of a point apart no further)
ReduceInputs ==
  UNION {[1..n -> {f \in GoodFlags : corner(f) # not_corner}
                    \cup {0, on_min_x_boundary}] : n \in 1..MaxReduceLen}

MaxRecursionInput == 2

MaxMonotoneLen == 3

\* coordinates of the points handed to the PointHoard of ContourBox: in
\* the box, on its sides, outside it, and so far outside that the scaled
\* coordinate is beyond the range of int
FetchCoordinates == {-1000, -3, 0, 2, 4, 7, 1000}

\* what the conversion of a double beyond the range of int may yield
ConversionOutcomes == {INT_MIN, -1, box_dim \div 2, box_dim + 1, INT_MAX}

\* the hoard before the call: empty, or holding the corner (min x, min y)
FetchHoards ==
  {PointHoard(ContourBox), fetch_corner(PointHoard(ContourBox), FALSE, FALSE).H}

\* the calls of fetch_discretized, fetch_undiscretized and fetch_corner
FetchInputs ==
  {[f |-> "fetch_discretized", H |-> H, pt |-> pt, flags |-> fl] :
     H \in FetchHoards, pt \in FetchCoordinates \X FetchCoordinates, fl \in GoodFlags}
  \cup {[f |-> "fetch_undiscretized", H |-> H, pt |-> pt, flags |-> 0] :
          H \in FetchHoards, pt \in FetchCoordinates \X FetchCoordinates}
  \cup {[f |-> "fetch_corner", H |-> H, pt |-> <<mx, my>>, flags |-> 0] :
          H \in FetchHoards, mx \in BOOLEAN, my \in BOOLEAN}

\* the hoard of the tesser given a monotone boundary: two points of the
\* side min x and one of the side max x
MonotoneHoard ==
  With(<<<<1, 1>>, <<1, box_dim \div 2>>, <<box_dim + 1, box_dim \div 2>>>>,
       LAMBDA ipts :
    [PointHoard(ContourBox) EXCEPT !.m_ipts = ipts,
                                   !.m_pts = [k \in DOMAIN ipts |->
                                                unapply(ContourBox, ipts[k])]])

\* the arguments of tesser::emitmonotone_callback: the winding of the
\* polygon, and for each of its 1 to MaxMonotoneLen edges the vertex it
\* starts at and the winding on its other side
MonotoneInputs ==
  UNION {{[f |-> "emitmonotone_callback", glu_tess_winding |-> w, vertex_ids |-> ids,
           winding_ids |-> wids] :
            w \in 0..1, ids \in [1..n -> 0..2], wids \in [1..n -> 0..1]} :
         n \in 1..MaxMonotoneLen}

\* a right triangle whose legs lie on the sides x = 0 and y = 0 of its
\* bounding box [0,100]x[0,100]: n segments along each leg, one along the
\* hypotenuse
LegsContour(n) ==
  <<EdgeLine(<<0, 0>>, <<100, 0>>, n), <<<<100, 0>>, <<0, 100>>>>,
    EdgeLine(<<0, 100>>, <<0, 0>>, n)>>

\* the paths SubsetPrivate is constructed on: the input paths and the
\* triangle of 65 points
SubsetPaths == InputPaths \o << <<LegsContour(32)>> >>

\* the arguments of SubsetPrivate::SubsetPrivate: the SubPath of a path of
\* SubsetPaths and a recursion budget of 0 to MaxRecursionInput, or the
\* budget recursion_depth create_root_subset gives
SubsetInputs ==
  {[f |-> "SubsetPrivate", Q |-> SubPathFromTessellatedPath(SubsetPaths[k]),
    max_recursion |-> r] :
     k \in DOMAIN SubsetPaths, r \in (0..MaxRecursionInput) \cup {recursion_depth}}

ContourInputs ==
  {[f |-> "unloop_contour", C |-> C] : C \in UnloopInputs}
  \cup SubsetInputs
  \cup MonotoneInputs
  \cup FetchInputs
  \cup {[f |-> "SubPath", contours |-> cs] : cs \in SubPathInputs}
  \cup {[f |-> "generate_path", contours |-> cs] : cs \in PathInputs}
  \cup {[f |-> "split_contour", src |-> C, splitting_coordinate |-> sc,
          splitting_value |-> 2] : C \in SplitInputs, sc \in {0, 1}}
  \cup {[f |-> "add_contour", C |-> C, m_point_count |-> n] :
          C \in DeliveredContours, n \in PointCounts}
  \cup {[f |-> "reduce_contour", C |-> [k \in DOMAIN fl |-> ContourPoint(k - 1, fl[k])]] :
          fl \in ReduceInputs}

InitContours ==
  /\ m_subsets = << >>
  /\ glu = 1
  /\ m_call = Idle
  /\ w_in = <<0, 0>>
  /\ chunk_out = << >>
  /\ contour_in \in ContourInputs
  /\ contour_out = nullptr
  /\ m_d = nullptr
  /\ allocations = {}
  /\ atlas_call = [op |-> "idle"]

\* PointHoard::unloop_contour(C, output), output being empty at the call
UnloopContour ==
  /\ contour_in.f = "unloop_contour"
  /\ contour_out = nullptr
  /\ contour_out' = <<[op |-> "unloop_contour", output |-> unloop_contour(contour_in.C)]>>
  /\ UNCHANGED <<m_subsets, glu, m_call, w_in, chunk_out, contour_in, atlas_vars>>

\* SubPath::SubPath(bb, contours, gen, name), and what
\* SubPath::contour_is_reducable returns for each contour
ConstructSubPath ==
  /\ contour_in.f = "SubPath"
  /\ contour_out = nullptr
  /\ contour_out' = <<[op |-> "SubPath",
                       reducable |-> [k \in DOMAIN contour_in.contours |->
                                        contour_is_reducable(contour_in.contours[k])],
                       sub_path |-> SubPath(ContourBox, contour_in.contours, 0)]>>
  /\ UNCHANGED <<m_subsets, glu, m_call, w_in, chunk_out, contour_in, atlas_vars>>

\* SubPath::split_contour(src, splitting_coordinate, splitting_value, C0, C1)
SplitContour ==
  /\ contour_in.f = "split_contour"
  /\ contour_out = nullptr
  /\ \E r \in {split_contour(contour_in.src, contour_in.splitting_coordinate,
                                contour_in.splitting_value)} :
       contour_out' = <<[op |-> "split_contour", C0 |-> r[1], C1 |-> r[2]]>>
  /\ UNCHANGED <<m_subsets, glu, m_call, w_in, chunk_out, contour_in, atlas_vars>>

\* tesser::add_contour(C) in a tesser over FudgeHoard
AddContour ==
  /\ contour_in.f = "add_contour"
  /\ contour_out = nullptr
  /\ \E r \in {add_contour(FudgeHoard, contour_in.m_point_count, contour_in.C)} :
       contour_out' = <<[op |-> "add_contour", delivered |-> r.delivered,
                         m_point_count |-> r.m_point_count]>>
  /\ UNCHANGED <<m_subsets, glu, m_call, w_in, chunk_out, contour_in, atlas_vars>>

\* PointHoard::reduce_contour(C): the contour as the call leaves it and the
\* value returned
ReduceContour ==
  /\ contour_in.f = "reduce_contour"
  /\ contour_out = nullptr
  /\ \E r \in {reduce_contour(contour_in.C)} :
       contour_out' = <<[op |-> "reduce_contour", C |-> r.C, return_value |-> r.w,
                         asserted |-> r.asserted]>>
  /\ UNCHANGED <<m_subsets, glu, m_call, w_in, chunk_out, contour_in, atlas_vars>>

\* builder's use of PointHoard::generate_path on the SubPath of the
\* contours: the path and the winding offset returned go to a tesser, whose
\* begin_callBack is then given glu_tess_winding_number
GeneratePath(glu_tess_winding_number) ==
  /\ contour_in.f = "generate_path"
  /\ contour_out = nullptr
  /\ \E gp \in {generate_path(PointHoard(ContourBox),
                                SubPath(ContourBox, contour_in.contours, 0))} :
       contour_out' =
         <<[op |-> "generate_path", path |-> gp.path, return_value |-> gp.w,
            asserted |-> gp.asserted,
            glu_tess_winding_number |-> glu_tess_winding_number,
            m_current_winding |->
              begin_callBack(tesser(gp.H, gp.path, gp.w),
                             glu_tess_winding_number).m_current_winding]>>
  /\ UNCHANGED <<m_subsets, glu, m_call, w_in, chunk_out, contour_in, atlas_vars>>

\* SubsetPrivate::SubsetPrivate(Q, max_recursion, out_values), out_values
\* being empty at the call
ConstructSubset ==
  /\ contour_in.f = "SubsetPrivate"
  /\ contour_out = nullptr
  /\ contour_out' = <<[op |-> "SubsetPrivate",
                       out_values |-> SubsetPrivate(contour_in.Q, contour_in.max_recursion,
                                                    << >>)]>>
  /\ UNCHANGED <<m_subsets, glu, m_call, w_in, chunk_out, contour_in, atlas_vars>>

\* tesser::emitmonotone_callback on a tesser of winding offset 1 whose
\* hoard is empty, and the same callback a second time
EmitMonotone ==
  /\ contour_in.f = "emitmonotone_callback"
  /\ contour_out = nullptr
  /\ \E T1 \in {emitmonotone_callback(tesser(MonotoneHoard, << >>, 1),
                                        contour_in.glu_tess_winding, contour_in.vertex_ids,
                                        contour_in.winding_ids)} :
       \E T2 \in {emitmonotone_callback(T1, contour_in.glu_tess_winding,
                                          contour_in.vertex_ids, contour_in.winding_ids)} :
         contour_out' = <<[op |-> "emitmonotone_callback",
                           windings |-> DOMAIN T1.m_hoard,
                           m_edge_list |-> T1.m_hoard[1 + contour_in.glu_tess_winding].m_edge_list,
                           second |-> T2.m_hoard[1 + contour_in.glu_tess_winding].m_edge_list]>>
  /\ UNCHANGED <<m_subsets, glu, m_call, w_in, chunk_out, contour_in, atlas_vars>>

\* both scaled coordinates of pt are within the range of int
iapply_defined(bb, pt) ==
  /\ converts_to_int(pt[1], bb.m_min[1], bb.m_max[1])
  /\ converts_to_int(pt[2], bb.m_min[2], bb.m_max[2])

\* iapply when the conversions to int of the scaled coordinates yield cx
\* and cy wherever the scaled coordinate is beyond the range of int
iapply_converting(bb, pt, cx, cy) ==
  <<1 + clamp_int(IF converts_to_int(pt[1], bb.m_min[1], bb.m_max[1])
                  THEN scaled_int(pt[1], bb.m_min[1], bb.m_max[1]) ELSE cx),
    1 + clamp_int(IF converts_to_int(pt[2], bb.m_min[2], bb.m_max[2])
                  THEN scaled_int(pt[2], bb.m_min[2], bb.m_max[2]) ELSE cy)>>

\* PointHoard::fetch_discretized, fetch_undiscretized or fetch_corner on
\* the hoard contour_in.H; cx and cy are what the conversion to int in
\* iapply yields for a scaled coordinate beyond the range of int
Fetch(cx, cy) ==
  /\ contour_in.f \in {"fetch_discretized", "fetch_undiscretized", "fetch_corner"}
  /\ contour_out = nullptr
  /\ \E ipt \in {IF contour_in.f = "fetch_corner" THEN <<0, 0>>
                 ELSE iapply_converting(contour_in.H.bounds, contour_in.pt, cx, cy)} :
     \E r \in {CASE contour_in.f = "fetch_corner" ->
                     fetch_corner(contour_in.H, contour_in.pt[1], contour_in.pt[2])
                 [] contour_in.f = "fetch_discretized"
                      /\ iapply_defined(contour_in.H.bounds, contour_in.pt) ->
                     fetch_discretized(contour_in.H, contour_in.pt, contour_in.flags)
                 [] contour_in.f = "fetch_undiscretized"
                      /\ iapply_defined(contour_in.H.bounds, contour_in.pt) ->
                     fetch_undiscretized(contour_in.H, contour_in.pt)
                 [] contour_in.f = "fetch_discretized"
                      /\ ~iapply_defined(contour_in.H.bounds, contour_in.pt) ->
                     map_find_or_add(contour_in.H, contour_in.pt,
                                     with_boundary_flags(ipt, contour_in.flags))
                 [] OTHER ->
                     [H |-> [contour_in.H EXCEPT !.m_ipts = Append(@, ipt),
                                                 !.m_pts = Append(@, contour_in.pt)],
                      I |-> Len(contour_in.H.m_pts)]} :
       contour_out' = <<[op |-> contour_in.f, H |-> r.H, return_value |-> r.I]>>
  /\ UNCHANGED <<m_subsets, glu, m_call, w_in, chunk_out, contour_in, atlas_vars>>

NextContours ==
  \/ ConstructSubset
  \/ \E cx \in ConversionOutcomes, cy \in ConversionOutcomes : Fetch(cx, cy)
  \/ EmitMonotone
  \/ UnloopContour
  \/ ConstructSubPath
  \/ SplitContour
  \/ AddContour
  \/ ReduceContour
  \/ \E w \in (-MaxWindingInput)..MaxWindingInput : GeneratePath(w)

SpecContours == InitContours /\ [][NextContours]_vars

\* ---------------------------------------------------------------------
\* interval_allocator (private/interval_allocator.hpp) as ColorStopAtlas
\* uses it: the cells 0..size-1 of one layer, TRUE where a cell is taken
\* ---------------------------------------------------------------------
interval_allocator(size) == [c \in 0..(size - 1) |-> FALSE]

\* the cells [x, x + w) belong to the layer and are free
interval_is_free(A, x, w) ==
  /\ x \in DOMAIN A
  /\ x + w - 1 \in DOMAIN A
  /\ \A c \in x..(x + w - 1) : ~A[c]

largest_free_interval(A) ==
  SetMax({0} \cup {w \in 1..Cardinality(DOMAIN A) :
                     \E x \in DOMAIN A : interval_is_free(A, x, w)})

\* the outcomes of allocate_interval(w): the start x of any free interval
\* of w cells, which are then taken; -1 and no change when there is none
allocate_interval(A, w) ==
  IF \E x \in DOMAIN A : interval_is_free(A, x, w)
  THEN {[x |-> x, A |-> [c \in DOMAIN A |-> A[c] \/ (c >= x /\ c < x + w)]] :
          x \in {x0 \in DOMAIN A : interval_is_free(A, x0, w)}}
  ELSE {[x |-> -1, A |-> A]}

free_interval(A, x, w) == [c \in DOMAIN A |-> A[c] /\ ~(c >= x /\ c < x + w)]

\* ---------------------------------------------------------------------
\* ColorStopBackingStore, ColorStopAtlas
\* ---------------------------------------------------------------------
\* largest width of a backing store the model is run with
MaxAtlasWidth == 3

\* largest number of texels (width times layers) of a backing store, as
\* it is made and as it grows
MaxAtlasTexels == 6

ColorStopBackingStore(w, num_layers, presizable) ==
  [m_dimensions |-> <<w, num_layers>>,
   m_width_times_height |-> w * num_layers,
   m_resizeable |-> presizable]

\* ColorStopBackingStore::resize
resize(store, new_num_layers) ==
  [store EXCEPT !.m_dimensions = <<store.m_dimensions[1], new_num_layers>>,
                !.m_width_times_height = store.m_dimensions[1] * new_num_layers]

\* m_available_layers.end()
available_layers_end == -1

\* m_available_layers.lower_bound(width): the least key not below width
lower_bound(available_layers, width) ==
  IF \E k \in DOMAIN available_layers : k >= width
  THEN SetMin({k \in DOMAIN available_layers : k >= width})
  ELSE available_layers_end

\* m_available_layers[key].insert(y)
available_layers_insert(available_layers, key, y) ==
  IF key \in DOMAIN available_layers
  THEN [available_layers EXCEPT ![key] = @ \cup {y}]
  ELSE (key :> {y}) @@ available_layers

\* the key stays in the map when its set has become empty
remove_entry_keeping_empty_key(available_layers, iter, y) ==
  [available_layers EXCEPT ![iter] = @ \ {y}]

\* ColorStopAtlasPrivate::remove_entry_from_available_layers
remove_entry_from_available_layers(available_layers, iter, y) ==
  IF available_layers[iter] \ {y} = {}
  THEN [k \in DOMAIN available_layers \ {iter} |-> available_layers[k]]
  ELSE [available_layers EXCEPT ![iter] = @ \ {y}]

\* the block of allocate and of deallocate that follows the change of the
\* largest free interval of layer y from old_max to new_max
available_layers_update(available_layers, old_max, new_max, y) ==
  IF old_max # new_max
  THEN available_layers_insert(
         remove_entry_from_available_layers(available_layers, old_max, y), new_max, y)
  ELSE available_layers

\* ColorStopAtlasPrivate::add_bookkeeping
add_bookkeeping(d, new_size) ==
  LET width == d.m_backing_store.m_dimensions[1]
      old_size == Len(d.m_layer_allocator)
      S == IF width \in DOMAIN d.m_available_layers
           THEN d.m_available_layers[width] ELSE {}
  IN [d EXCEPT !.m_layer_allocator =
                 @ \o [y \in 1..(new_size - old_size) |-> interval_allocator(width)],
               !.m_available_layers =
                 (width :> (S \cup (old_size..(new_size - 1)))) @@ @]

\* ColorStopAtlasPrivate::ColorStopAtlasPrivate
ColorStopAtlasPrivate(pbacking_store) ==
  add_bookkeeping([m_backing_store |-> pbacking_store,
                   m_allocated |-> 0,
                   m_layer_allocator |-> << >>,
                   m_available_layers |-> << >>],
                  pbacking_store.m_dimensions[2])

max_width(d) == d.m_backing_store.m_dimensions[1]

total_available(d) == d.m_backing_store.m_width_times_height - d.m_allocated

largest_allocation_possible(d) ==
  IF DOMAIN d.m_available_layers = {} THEN 0 ELSE SetMax(DOMAIN d.m_available_layers)

\* allocate finds no layer for width and the backing store can grow
allocate_grows(d, width) ==
  /\ lower_bound(d.m_available_layers, width) = available_layers_end
  /\ d.m_backing_store.m_resizeable

\* the number of layers allocate grows the backing store to
allocate_new_size(d) == t_max(1, d.m_backing_store.m_dimensions[2] * 2)

\* ColorStopAtlas::allocate of width texels: the outcomes, one for each
\* interval the layer allocator may hand out; old_max is the local of
\* that name, (-1, -1) is returned by an exhausted atlas
allocate(d, width) ==
  With(IF allocate_grows(d, width)
       THEN add_bookkeeping([d EXCEPT !.m_backing_store =
                                        resize(@, allocate_new_size(d))],
                            allocate_new_size(d))
       ELSE d, LAMBDA d1 :
  With(lower_bound(d1.m_available_layers, width), LAMBDA iter :
    IF iter = available_layers_end
    THEN {[d |-> d1, return_value |-> <<-1, -1>>, old_max |-> -1]}
    ELSE With(SetMin(d1.m_available_layers[iter]), LAMBDA y :
         With(largest_free_interval(d1.m_layer_allocator[y + 1]), LAMBDA old_max :
           {[d |-> [d1 EXCEPT !.m_layer_allocator[y + 1] = o.A,
                              !.m_available_layers =
                                available_layers_update(@, old_max,
                                                        largest_free_interval(o.A), y),
                              !.m_allocated = @ + width],
             return_value |-> <<o.x, y>>,
             old_max |-> old_max] :
              o \in allocate_interval(d1.m_layer_allocator[y + 1], width)}))))

\* ColorStopAtlas::deallocate
deallocate(d, location, width) ==
  With(location[2], LAMBDA y :
  With(largest_free_interval(d.m_layer_allocator[y + 1]), LAMBDA old_max :
  With(free_interval(d.m_layer_allocator[y + 1], location[1], width), LAMBDA A :
    [d EXCEPT !.m_layer_allocator[y + 1] = A,
              !.m_available_layers =
                available_layers_update(@, old_max, largest_free_interval(A), y),
              !.m_allocated = @ - width])))

\* ---------------------------------------------------------------------
\* One ColorStopAtlas under allocate and deallocate calls
\* ---------------------------------------------------------------------
InitAtlas ==
  /\ m_subsets = << >>
  /\ glu = 1
  /\ m_call = Idle
  /\ w_in = <<0, 0>>
  /\ chunk_out = << >>
  /\ contour_in = nullptr
  /\ contour_out = nullptr
  /\ \E w \in 1..MaxAtlasWidth, num_layers \in 1..MaxAtlasTexels, presizable \in BOOLEAN :
       /\ w * num_layers <= MaxAtlasTexels
       /\ m_d = <<ColorStopAtlasPrivate(ColorStopBackingStore(w, num_layers, presizable))>>
  /\ allocations = {}
  /\ atlas_call = Idle

\* ColorStopAtlas::allocate of a data array of width texels; a backing
\* store grows up to MaxAtlasTexels texels
Allocate(width) ==
  /\ m_d # nullptr
  /\ width > 0
  /\ width <= max_width(m_d[1])
  /\ allocate_grows(m_d[1], width) =>
       max_width(m_d[1]) * allocate_new_size(m_d[1]) <= MaxAtlasTexels
  /\ \A k \in DOMAIN m_d[1].m_available_layers : m_d[1].m_available_layers[k] # {}
  /\ \E out \in allocate(m_d[1], width) :
       /\ m_d' = <<out.d>>
       /\ allocations' = IF out.return_value = <<-1, -1>> THEN allocations
                         ELSE allocations \cup {[location |-> out.return_value,
                                                 width |-> width]}
       /\ atlas_call' = [op |-> "allocate", width |-> width,
                         return_value |-> out.return_value, old_max |-> out.old_max,
                         old_size |-> Len(m_d[1].m_layer_allocator)]
  /\ UNCHANGED <<m_subsets, glu, m_call, w_in, chunk_out, contour_in, contour_out>>

\* ColorStopAtlas::deallocate of an allocation that is live
Deallocate(a) ==
  /\ m_d # nullptr
  /\ a \in allocations
  /\ m_d' = <<deallocate(m_d[1], a.location, a.width)>>
  /\ allocations' = allocations \ {a}
  /\ atlas_call' = [op |-> "deallocate", width |-> a.width, location |-> a.location]
  /\ UNCHANGED <<m_subsets, glu, m_call, w_in, chunk_out, contour_in, contour_out>>

NextAtlas ==
  \/ \E width \in 1..MaxAtlasWidth : Allocate(width)
  \/ \E a \in allocations : Deallocate(a)

SpecAtlas == InitAtlas /\ [][NextAtlas]_vars

\* =====================================================================
\* Properties
\* =====================================================================
\* a node is realized when its m_painter_data is there
Realized(n) == n.m_painter_data # nullptr

SizeMetrics(n) ==
  <<n.m_sizes_ready, n.m_num_attributes, n.m_largest_index_block,
    n.m_aa_largest_attribute_block, n.m_aa_largest_index_block>>

IsLeaf(n) == n.m_children[1] = -1

\* C1: realization is one-way and idempotent.  Once a node has realized
\* data, every later subset(j) and select_subsets call (a subset(i) on the
\* node itself included) leaves it realized, with the same painter data,
\* fuzz data, winding numbers and size metrics.
C1_RealizationOneWay ==
  [][\A i \in NodeIDs :
       Realized(m_subsets[i + 1]) =>
         /\ Len(m_subsets') = Len(m_subsets)
         /\ Realized(m_subsets'[i + 1])
         /\ m_subsets'[i + 1].m_painter_data = m_subsets[i + 1].m_painter_data
         /\ m_subsets'[i + 1].m_fuzz_painter_data = m_subsets[i + 1].m_fuzz_painter_data
         /\ m_subsets'[i + 1].m_winding_numbers = m_subsets[i + 1].m_winding_numbers
         /\ SizeMetrics(m_subsets'[i + 1]) = SizeMetrics(m_subsets[i + 1])]_vars

\* subset(I) has just returned for a node that was realized before the call,
\* after an earlier select_subsets or subset call realized it
C1_Witness ==
  /\ m_call.op = "subset"
  /\ m_call.was_ready
  /\ ~IsLeaf(m_subsets[m_call.I + 1])
  /\ Realized(m_subsets[m_call.I + 1])

\* the triangles of an index list: its consecutive triples
TrianglesOf(s) == [k \in 1..(Len(s) \div 3) |-> <<s[3 * k - 2], s[3 * k - 1], s[3 * k]>>]

CountIn(t, ts) == Cardinality({k \in DOMAIN ts : ts[k] = t})

\* the same triangles, each as many times
SameTriangles(ts1, ts2) ==
  /\ Len(ts1) = Len(ts2)
  /\ \A t \in Range(ts1) \cup Range(ts2) : CountIn(t, ts1) = CountIn(t, ts2)

\* the triangles m_hoard held for the windings W, b being the field B of a
\* realized leaf
HoardTriangles(b, W) ==
  Flatten([k \in DOMAIN SortedSeqOfSet(W) |-> TrianglesOf(b.m_triangles[SortedSeqOfSet(W)[k]])])

\* the triangles of the range [lo, hi) of the index buffer
BufferTriangles(b, lo, hi) == TrianglesOf(SubSeq(b.m_indices, lo + 1, hi))

OddWindings(b) == {w \in DOMAIN b.m_triangles : w % 2 = 1}

EvenNonZeroWindings(b) == {w \in DOMAIN b.m_triangles : w % 2 = 0 /\ w # 0}

ZeroWindings(b) == {w \in DOMAIN b.m_triangles : w = 0}

\* C2: for every realized leaf the index buffer fill_indices produced holds
\* exactly the triangles of the odd windings in [0, even_non_zero_start),
\* of the even non-zero windings in [even_non_zero_start, zero_start) and
\* of winding zero in [zero_start, total); the four fill-rule index chunks
\* are the ranges [0, even_non_zero_start), [0, zero_start),
\* [even_non_zero_start, total) and [zero_start, total) of that buffer and
\* hold exactly the triangles whose winding satisfies the rule, negative
\* windings included.
C2_FillRuleRanges ==
  \A i \in NodeIDs :
    m_subsets[i + 1].B # nullptr =>
      LET b == m_subsets[i + 1].B[1]
          pd == m_subsets[i + 1].m_painter_data[1]
          total == Len(b.m_indices)
          e == b.even_non_zero_start
          z == b.zero_start
      IN /\ 0 <= e /\ e <= z /\ z <= total
         /\ SameTriangles(BufferTriangles(b, 0, e), HoardTriangles(b, OddWindings(b)))
         /\ SameTriangles(BufferTriangles(b, e, z), HoardTriangles(b, EvenNonZeroWindings(b)))
         /\ SameTriangles(BufferTriangles(b, z, total), HoardTriangles(b, ZeroWindings(b)))
         /\ index_data_chunk(pd, odd_even_fill_rule) = SubSeq(b.m_indices, 1, e)
         /\ index_data_chunk(pd, nonzero_fill_rule) = SubSeq(b.m_indices, 1, z)
         /\ index_data_chunk(pd, complement_odd_even_fill_rule) = SubSeq(b.m_indices, e + 1, total)
         /\ index_data_chunk(pd, complement_nonzero_fill_rule) = SubSeq(b.m_indices, z + 1, total)
         /\ SameTriangles(TrianglesOf(index_data_chunk(pd, nonzero_fill_rule)),
                          HoardTriangles(b, OddWindings(b) \cup EvenNonZeroWindings(b)))
         /\ SameTriangles(TrianglesOf(index_data_chunk(pd, complement_odd_even_fill_rule)),
                          HoardTriangles(b, EvenNonZeroWindings(b) \cup ZeroWindings(b)))

\* a realized leaf whose builder held triangles of a negative odd winding,
\* of two odd windings, of an even non-zero winding and of winding zero
C2_Witness ==
  \E i \in NodeIDs :
    /\ m_subsets[i + 1].B # nullptr
    /\ {-1, 0, 1, 2} \subseteq DOMAIN m_subsets[i + 1].B[1].m_triangles
    /\ m_subsets[i + 1].B[1].even_non_zero_start > 0
    /\ m_subsets[i + 1].B[1].zero_start > m_subsets[i + 1].B[1].even_non_zero_start
    /\ Len(m_subsets[i + 1].B[1].m_indices) > m_subsets[i + 1].B[1].zero_start

RECURSIVE Descendants(_, _)
\* the ids of the nodes below node id in the tree S
Descendants(S, id) ==
  IF IsLeaf(S[id + 1]) THEN {}
  ELSE {S[id + 1].m_children[1], S[id + 1].m_children[2]}
       \cup Descendants(S, S[id + 1].m_children[1])
       \cup Descendants(S, S[id + 1].m_children[2])

LeavesBelow(S, id) == {d \in Descendants(S, id) : IsLeaf(S[d + 1])}

StrictlyIncreasing(s) == \A k \in 1..(Len(s) - 1) : s[k] < s[k + 1]

\* C3: a realized interior node n has for winding_numbers the sorted,
\* duplicate-free union of the winding numbers of its two children, which
\* is the union of the winding numbers of all the leaves below n; and every
\* descendant of n is realized.
C3_WindingUnion ==
  \A i \in NodeIDs :
    (Realized(m_subsets[i + 1]) /\ ~IsLeaf(m_subsets[i + 1])) =>
      LET n == m_subsets[i + 1]
          c0 == m_subsets[n.m_children[1] + 1]
          c1 == m_subsets[n.m_children[2] + 1]
      IN /\ StrictlyIncreasing(n.m_winding_numbers)
         /\ Range(n.m_winding_numbers) = Range(c0.m_winding_numbers) \cup Range(c1.m_winding_numbers)
         /\ Range(n.m_winding_numbers) =
              UNION {Range(m_subsets[d + 1].m_winding_numbers) : d \in LeavesBelow(m_subsets, i)}
         /\ \A d \in Descendants(m_subsets, i) : Realized(m_subsets[d + 1])

\* subset(I) has just realized an interior node with interior children, the
\* winding sets of its two children overlapping and neither holding the other
C3_Witness ==
  /\ m_call.op = "subset"
  /\ ~m_call.was_ready
  /\ ~IsLeaf(m_subsets[m_call.I + 1])
  /\ LET n == m_subsets[m_call.I + 1]
         w0 == Range(m_subsets[n.m_children[1] + 1].m_winding_numbers)
         w1 == Range(m_subsets[n.m_children[2] + 1].m_winding_numbers)
     IN /\ Realized(n)
        /\ \E d \in Descendants(m_subsets, m_call.I) : ~IsLeaf(m_subsets[d + 1])
        /\ w0 \cap w1 # {}
        /\ w0 \ w1 # {}
        /\ w1 \ w0 # {}

LeafIDs(S) == {i \in 0..(Len(S) - 1) : IsLeaf(S[i + 1])}

\* the point P lies in the closed box bb scaled by two
InDoubledBox(P, bb) ==
  /\ 2 * bb.m_min[1] <= P[1] /\ P[1] <= 2 * bb.m_max[1]
  /\ 2 * bb.m_min[2] <= P[2] /\ P[2] <= 2 * bb.m_max[2]

\* twice the coordinates, along axis c, of the sides of the boxes of S and
\* the coordinates midway between two of them in turn
DoubledCuts(S, c) ==
  LET cuts == SortedSeqOfSet({S[i].m_bounds.m_min[c] : i \in DOMAIN S}
                             \cup {S[i].m_bounds.m_max[c] : i \in DOMAIN S})
  IN {2 * cuts[k] : k \in DOMAIN cuts}
     \cup {cuts[k] + cuts[k + 1] : k \in 1..(Len(cuts) - 1)}

\* the interiors of the boxes a and b have no common point
InteriorsDisjoint(a, b) ==
  \E c \in {1, 2} : a.m_max[c] <= b.m_min[c] \/ b.m_max[c] <= a.m_min[c]

\* the children of the interior node n of S are [min, s] and [s, max] along
\* the splitting axis and n's extent along the other
SplitsBox(S, n) ==
  LET c == n.m_splitting_coordinate + 1
      o == 2 - n.m_splitting_coordinate
      b0 == S[n.m_children[1] + 1].m_bounds
      b1 == S[n.m_children[2] + 1].m_bounds
      s == b0.m_max[c]
  IN /\ n.m_splitting_coordinate \in {0, 1}
     /\ b0.m_min = n.m_bounds.m_min
     /\ b1.m_max = n.m_bounds.m_max
     /\ b1.m_min[c] = s
     /\ b0.m_max[o] = n.m_bounds.m_max[o]
     /\ b1.m_min[o] = n.m_bounds.m_min[o]
     /\ n.m_bounds.m_min[c] <= s /\ s <= n.m_bounds.m_max[c]

\* C4: in the tree built at construction the union of the bounding boxes
\* of the leaves is the bounding box of the root and the interiors of the
\* boxes of two distinct leaves are disjoint; every split makes the
\* children [min, s] and [s, max] along the splitting axis, with the
\* parent's extent along the other axis and min <= s <= max.
C4_PartitionCover ==
  /\ \A i \in NodeIDs : ~IsLeaf(m_subsets[i + 1]) => SplitsBox(m_subsets, m_subsets[i + 1])
  /\ \A a, b \in LeafIDs(m_subsets) :
       a # b => InteriorsDisjoint(m_subsets[a + 1].m_bounds, m_subsets[b + 1].m_bounds)
  /\ m_subsets # << >> =>
       /\ \A a \in LeafIDs(m_subsets) :
            /\ InDoubledBox(<<2 * m_subsets[a + 1].m_bounds.m_min[1],
                              2 * m_subsets[a + 1].m_bounds.m_min[2]>>, m_subsets[1].m_bounds)
            /\ InDoubledBox(<<2 * m_subsets[a + 1].m_bounds.m_max[1],
                              2 * m_subsets[a + 1].m_bounds.m_max[2]>>, m_subsets[1].m_bounds)
       /\ \A x \in DoubledCuts(m_subsets, 1), y \in DoubledCuts(m_subsets, 2) :
            InDoubledBox(<<x, y>>, m_subsets[1].m_bounds) =>
              \E a \in LeafIDs(m_subsets) : InDoubledBox(<<x, y>>, m_subsets[a + 1].m_bounds)

\* a tree with a split along x and a split along y, the splitting value
\* strictly inside the parent's extent, and four leaves
C4_Witness ==
  /\ Cardinality(LeafIDs(m_subsets)) >= 4
  /\ \A c \in {0, 1} :
       \E i \in NodeIDs :
         LET n == m_subsets[i + 1]
         IN /\ ~IsLeaf(n)
            /\ n.m_splitting_coordinate = c
            /\ n.m_bounds.m_min[c + 1] < m_subsets[n.m_children[1] + 1].m_bounds.m_max[c + 1]
            /\ m_subsets[n.m_children[1] + 1].m_bounds.m_max[c + 1] < n.m_bounds.m_max[c + 1]

\* clip_matrix_local applied to the homogeneous local point P
float3x3_times_vec3(M, P) ==
  [r \in 1..3 |-> M[r][1] * P[1] + M[r][2] * P[2] + M[r][3] * P[3]]

\* the value of the clip equation at the clip coordinates of the local
\* homogeneous point P
ClipValue(clip_eq, M, P) ==
  LET Q == float3x3_times_vec3(M, P)
  IN clip_eq[1] * Q[1] + clip_eq[2] * Q[2] + clip_eq[3] * Q[3]

\* a line <<a, b, c>> stands for the half-plane a x + b y + c w >= 0
LineValue(L, P) == L[1] * P[1] + L[2] * P[2] + L[3] * P[3]

BoxSides(bb) ==
  {<<1, 0, -bb.m_min[1]>>, <<-1, 0, bb.m_max[1]>>,
   <<0, 1, -bb.m_min[2]>>, <<0, -1, bb.m_max[2]>>}

\* the half-planes, in local coordinates, in which a clip equation is >= 0
ClipHalfPlanes(clip_equations, M) ==
  {<<ClipValue(clip_equations[k], M, <<1, 0, 0>>),
     ClipValue(clip_equations[k], M, <<0, 1, 0>>),
     ClipValue(clip_equations[k], M, <<0, 0, 1>>)>> : k \in DOMAIN clip_equations}

\* the homogeneous point where the lines L1 and L2 meet, with w >= 0
Meet(L1, L2) ==
  LET P == <<L1[2] * L2[3] - L2[2] * L1[3],
             L1[3] * L2[1] - L2[3] * L1[1],
             L1[1] * L2[2] - L2[1] * L1[2]>>
  IN IF P[3] < 0 THEN <<-P[1], -P[2], -P[3]>> ELSE P

\* some point of the box bb has every clip equation >= 0: a non-empty
\* bounded intersection of half-planes has a corner where two of their
\* lines meet
VisibleRegionNonEmpty(bb, clip_equations, M) ==
  LET lines == BoxSides(bb) \cup ClipHalfPlanes(clip_equations, M)
  IN \E L1, L2 \in lines :
       /\ Meet(L1, L2)[3] > 0
       /\ \A L \in lines : LineValue(L, Meet(L1, L2)) >= 0

\* the positions of the attributes of the painter data of a realized node
AttributePositions(n) ==
  UNION {{<<a.m_attrib0[1], a.m_attrib0[2]>> : a \in Range(n.m_painter_data[1].attribute_data_chunks[c])} :
         c \in DOMAIN n.m_painter_data[1].attribute_data_chunks}

InBox(p, bb) ==
  /\ bb.m_min[1] <= p[1] /\ p[1] <= bb.m_max[1]
  /\ bb.m_min[2] <= p[2] /\ p[2] <= bb.m_max[2]

\* C5: culling soundness of select_subsets.  A node select_subsets returns
\* from as completely clipped has no point of its rectangle at which every
\* clip equation, taken at the clip coordinates of the point, is >= 0; no
\* node of its subtree is written to dst; and the triangles of the realized
\* nodes of its subtree have their vertices in that rectangle, so none of
\* them meets the region where every clip equation is non-negative.
C5_CullingSound ==
  m_call.op = "select_subsets" =>
    \A k \in DOMAIN m_call.pruned :
      LET id == m_call.pruned[k]
          bb == m_subsets[id + 1].m_bounds
      IN /\ ~VisibleRegionNonEmpty(bb, m_call.clip_equations, m_call.clip_matrix_local)
         /\ \A d \in {id} \cup Descendants(m_subsets, id) :
              /\ d \notin Range(m_call.dst)
              /\ Realized(m_subsets[d + 1]) =>
                   \A p \in AttributePositions(m_subsets[d + 1]) : InBox(p, bb)

\* select_subsets has pruned a realized node under a clip_matrix_local that
\* is not the identity, and has written another node to dst
C5_Witness ==
  /\ m_call.op = "select_subsets"
  /\ m_call.clip_matrix_local # IdentityMatrix
  /\ m_call.dst # << >>
  /\ \E k \in DOMAIN m_call.pruned :
       /\ Realized(m_subsets[m_call.pruned[k] + 1])
       /\ AttributePositions(m_subsets[m_call.pruned[k] + 1]) # {}

\* the sizes of n are known and within the caps
WithinCaps(n, max_attribute_cnt, max_index_cnt) ==
  /\ n.m_sizes_ready
  /\ n.m_num_attributes <= max_attribute_cnt
  /\ n.m_aa_largest_attribute_block <= max_attribute_cnt
  /\ n.m_largest_index_block <= max_index_cnt
  /\ n.m_aa_largest_index_block <= max_index_cnt

\* C6: every id select_subsets writes to dst names a node whose sizes are
\* known and whose attribute count and anti-alias attribute block are <=
\* max_attribute_cnt and whose largest index block and anti-alias index
\* block are <= max_index_cnt; an unculled node with children whose sizes
\* were unknown, and an unculled node whose known sizes exceed a cap, is
\* not written, and the children of an unculled node that is not written
\* are visited instead (those of a written node are not).
C6_EmittedWithinCaps ==
  [][m_call'.op = "select_subsets" =>
       /\ \A k \in DOMAIN m_call'.dst :
            WithinCaps(m_subsets'[m_call'.dst[k] + 1],
                       m_call'.max_attribute_cnt, m_call'.max_index_cnt)
       /\ \A k \in DOMAIN m_call'.unculled :
            LET id == m_call'.unculled[k]
                pre == m_subsets[id + 1]
                written == id \in Range(m_call'.dst)
                visited(c) == c \in Range(m_call'.unculled)
            IN /\ (~IsLeaf(pre) /\ ~pre.m_sizes_ready) => ~written
               /\ (pre.m_sizes_ready
                   /\ ~WithinCaps(pre, m_call'.max_attribute_cnt, m_call'.max_index_cnt))
                    => ~written
               /\ (~written /\ ~IsLeaf(pre)) =>
                    visited(pre.m_children[1]) /\ visited(pre.m_children[2])
               /\ written => \A d \in Descendants(m_subsets, id) : ~visited(d)]_vars

\* select_subsets has returned having passed over a realized interior node
\* whose sizes exceed a cap and written both its children
C6_Witness ==
  /\ m_call.op = "select_subsets"
  /\ \E k \in DOMAIN m_call.unculled :
       LET n == m_subsets[m_call.unculled[k] + 1]
       IN /\ ~IsLeaf(n)
          /\ Realized(n)
          /\ ~WithinCaps(n, m_call.max_attribute_cnt, m_call.max_index_cnt)
          /\ n.m_ID \notin Range(m_call.dst)
          /\ n.m_children[1] \in Range(m_call.dst)
          /\ n.m_children[2] \in Range(m_call.dst)

\* the m_ID values of the node id of S and of the nodes below it
SubtreeIDs(S, id) == {S[d + 1].m_ID : d \in {id} \cup Descendants(S, id)}

\* the m_ID values are the depth-first pre-order positions: m_subsets[n.ID]
\* is n, the ids of a subtree are consecutive from its root's id, the first
\* child comes right after its parent and its subtree before the second
\* child's
IDsArePreOrder(S) ==
  /\ \A i \in 0..(Len(S) - 1) : S[i + 1].m_ID = i
  /\ S # << >> => SubtreeIDs(S, 0) = 0..(Len(S) - 1)
  /\ \A i \in 0..(Len(S) - 1) :
       ~IsLeaf(S[i + 1]) =>
         LET n == S[i + 1]
             c0 == n.m_children[1]
             c1 == n.m_children[2]
         IN /\ \A d \in SubtreeIDs(S, i) \ {n.m_ID} : n.m_ID < d
            /\ \A a \in SubtreeIDs(S, c0), b \in SubtreeIDs(S, c1) : a < b
            /\ S[c0 + 1].m_ID = n.m_ID + 1
            /\ SubtreeIDs(S, i) = n.m_ID..(n.m_ID + Cardinality(Descendants(S, i)))

\* C7: subset ids are the depth-first pre-order positions given at
\* construction: m_subsets[n.ID] is n, a parent's id is below every id of
\* its subtree, the ids of the first child's subtree are below those of the
\* second child's; and no subset, select_subsets or number_subsets call
\* changes an id or the value of number_subsets().
C7_StableIDs ==
  /\ IDsArePreOrder(m_subsets)
  /\ [][/\ Len(m_subsets') = Len(m_subsets)
        /\ \A i \in NodeIDs : m_subsets'[i + 1].m_ID = m_subsets[i + 1].m_ID
        /\ \A i \in NodeIDs : m_subsets'[i + 1].m_children = m_subsets[i + 1].m_children
        /\ IDsArePreOrder(m_subsets')
        /\ m_call'.op = "number_subsets" => m_call'.return_value = Len(m_subsets)]_vars

\* number_subsets() has returned 7 for the seven-node tree after calls have
\* realized its root, and with it every node
C7_Witness ==
  /\ m_call.op = "number_subsets"
  /\ m_call.return_value = 7
  /\ Realized(m_subsets[1])
  /\ \E i \in NodeIDs :
       /\ ~IsLeaf(m_subsets[i + 1])
       /\ ~IsLeaf(m_subsets[m_subsets[i + 1].m_children[1] + 1])
       /\ m_subsets[i + 1].m_children[2] > m_subsets[i + 1].m_children[1] + 1

\* half of the unsigned value the int v stands for, and its lowest bit
UnsignedHalf(v) == IF v >= 0 THEN v \div 2 ELSE ((v - INT_MIN) \div 2) + TwoTo30

UnsignedLowBit(v) == IF v >= 0 THEN v % 2 ELSE (v - INT_MIN) % 2

\* v is fill_rule_data_count + (1 if w < 0 else 0) + 2 (|w| - 1), or
\* complement_nonzero_fill_rule when w is 0
FillChunkFormula(w, v) ==
  IF w = 0 THEN v = complement_nonzero_fill_rule
  ELSE /\ w # INT_MIN
       /\ t_abs(w) < INT_MAX
       /\ UnsignedLowBit(v) = (IF w < 0 THEN 1 ELSE 0)
       /\ UnsignedHalf(v) = (t_abs(w) - 1) + (fill_rule_data_count \div 2)

\* v is 2 |w| + (w < 0 ? -1 : 0)
AaFuzzChunkFormula(w, v) ==
  IF w >= 0 THEN UnsignedLowBit(v) = 0 /\ UnsignedHalf(v) = w
  ELSE UnsignedLowBit(v) = 1 /\ UnsignedHalf(v) = -(w + 1)

\* for every winding of a realized node the chunk index is below the number
\* of chunks its painter data and its fuzz painter data hold
ChunksAllocated ==
  \A i \in NodeIDs :
    Realized(m_subsets[i + 1]) =>
      \A k \in DOMAIN m_subsets[i + 1].m_winding_numbers :
        LET w == m_subsets[i + 1].m_winding_numbers[k]
        IN /\ fill_chunk_from_winding_number(w)
                < Len(m_subsets[i + 1].m_painter_data[1].index_data_chunks)
           /\ aa_fuzz_chunk_from_winding_number(w)
                < Len(m_subsets[i + 1].m_fuzz_painter_data[1].index_data_chunks)

\* C8: both winding-to-chunk encodings return for every int, follow their
\* formulas and are injective; fill_chunk_from_winding_number of a winding
\* other than 0 is no fill-rule chunk; and the chunk of every winding of a
\* subset is below the number of chunks allocated.
C8_EncodingsInjective ==
  /\ ChunksAllocated
  /\ chunk_out # << >> =>
       /\ \A k \in 1..2 :
            /\ chunk_out[k].returned
            /\ chunk_out[k].f = "fill_chunk_from_winding_number" =>
                 /\ FillChunkFormula(w_in[k], chunk_out[k].value)
                 /\ w_in[k] # 0 =>
                      UnsignedHalf(chunk_out[k].value) >= fill_rule_data_count \div 2
            /\ chunk_out[k].f = "aa_fuzz_chunk_from_winding_number" =>
                 AaFuzzChunkFormula(w_in[k], chunk_out[k].value)
       /\ w_in[1] # w_in[2] => chunk_out[1].value # chunk_out[2].value

\* the positions of the six indices builder() adds when m_hoard is empty:
\* two triangles over the four corners of the box
BoundingRectangleTriangles(bb) ==
  <<<<bb.m_max[1], bb.m_max[2]>>, <<bb.m_max[1], bb.m_min[2]>>, <<bb.m_min[1], bb.m_min[2]>>,
    <<bb.m_max[1], bb.m_max[2]>>, <<bb.m_min[1], bb.m_min[2]>>, <<bb.m_min[1], bb.m_max[2]>>>>

\* the painter data of n is the bounding rectangle of n and nothing else
IsBoundingRectangle(n) ==
  /\ Realized(n)
  /\ Len(n.m_winding_numbers) = 1
  /\ LET pd == n.m_painter_data[1]
         idx == index_data_chunk(pd, fill_chunk_from_winding_number(n.m_winding_numbers[1]))
         attr == attribute_data_chunk(pd, 0)
     IN /\ \A k \in DOMAIN idx : idx[k] >= 0 /\ idx[k] < Len(attr)
        /\ [k \in DOMAIN idx |-> <<attr[idx[k] + 1].m_attrib0[1], attr[idx[k] + 1].m_attrib0[2]>>]
             = BoundingRectangleTriangles(n.m_bounds)

\* C9 as stated: whenever the triangulator reported failure for a subset (a
\* vertex callback received the null client id), the subset's result is the
\* bounding-rectangle fallback.
C9_FailureGivesBoundingRectangle ==
  \A i \in NodeIDs :
    (m_subsets[i + 1].B # nullptr /\ m_subsets[i + 1].B[1].triangulation_failed)
      => IsBoundingRectangle(m_subsets[i + 1])

\* C9, amended: a triangle with the null client id is dropped.  When no
\* winding component keeps a triangle the subset's result is the
\* bounding-rectangle fallback at the winding offset, whether or not a
\* failure was reported; otherwise the result is the triangles that were
\* kept, also after a reported failure.  In both cases the subset is
\* realized with index data naming attributes only: nothing is surfaced.
C9_FallbackWhenNothingKept ==
  \A i \in NodeIDs :
    m_subsets[i + 1].B # nullptr =>
      LET n == m_subsets[i + 1]
          b == n.B[1]
      IN /\ Realized(n) /\ n.m_fuzz_painter_data # nullptr
         /\ n.m_winding_numbers # << >>
         /\ \A k \in DOMAIN b.m_indices :
              b.m_indices[k] >= 0 /\ b.m_indices[k] < n.m_num_attributes
         /\ SameTriangles(TrianglesOf(b.m_indices), HoardTriangles(b, DOMAIN b.m_triangles))
         /\ b.hoard_empty =>
              /\ IsBoundingRectangle(n)
              /\ n.m_winding_numbers = <<b.winding_offset>>
         /\ (b.triangulation_failed /\ ~b.hoard_empty) =>
              \E w \in DOMAIN b.m_triangles : Len(b.m_triangles[w]) >= 3

\* one leaf realized after a failure that left no triangle, which is the
\* bounding rectangle, and one realized after a failure that left some
C9_Witness ==
  /\ \E i \in NodeIDs :
       /\ m_subsets[i + 1].B # nullptr
       /\ m_subsets[i + 1].B[1].triangulation_failed
       /\ m_subsets[i + 1].B[1].hoard_empty
       /\ IsBoundingRectangle(m_subsets[i + 1])
  /\ \E i \in NodeIDs :
       /\ m_subsets[i + 1].B # nullptr
       /\ m_subsets[i + 1].B[1].triangulation_failed
       /\ ~m_subsets[i + 1].B[1].hoard_empty

HasSubPath(n) == n.m_sub_path # nullptr

HasChildren(n) == n.m_children[1] # -1 \/ n.m_children[2] # -1

\* C10 as stated: in every reachable state every node of the subset tree
\* has exactly one of {SubPath, children} non-empty.
C10_ExactlyOneOfSubPathChildren ==
  \A i \in NodeIDs : HasSubPath(m_subsets[i + 1]) # HasChildren(m_subsets[i + 1])

\* C10, amended: in every reachable state no node has both a SubPath and
\* children, a node has both children or none, a node with children never
\* has a SubPath, and a node without children has its SubPath exactly
\* until it is realized: a realized leaf has neither.
C10_SubPathUntilRealized ==
  \A i \in NodeIDs :
    LET n == m_subsets[i + 1]
    IN /\ ~(HasSubPath(n) /\ HasChildren(n))
       /\ (n.m_children[1] = -1) = (n.m_children[2] = -1)
       /\ ~HasChildren(n) => (HasSubPath(n) = ~Realized(n))
       /\ HasSubPath(n) => Len(n.m_sub_path) = 1

\* a realized leaf, with neither SubPath nor children, next to a leaf that
\* still has its SubPath, under a parent with children and no SubPath
C10_Witness ==
  \E i \in NodeIDs :
    LET n == m_subsets[i + 1]
    IN /\ HasChildren(n) /\ ~HasSubPath(n)
       /\ \E a, b \in {n.m_children[1], n.m_children[2]} :
            /\ Realized(m_subsets[a + 1]) /\ ~HasChildren(m_subsets[a + 1])
            /\ ~HasSubPath(m_subsets[a + 1])
            /\ ~Realized(m_subsets[b + 1]) /\ HasSubPath(m_subsets[b + 1])

\* the tree S as the constructor leaves it: every node without painter
\* data, fuzz data and ready sizes, an interior node with two children
\* among the nodes after it and no SubPath, a leaf with its SubPath
SkeletonOnly(S) ==
  \A i \in DOMAIN S :
    /\ S[i].m_painter_data = nullptr
    /\ S[i].m_fuzz_painter_data = nullptr
    /\ ~S[i].m_sizes_ready
    /\ S[i].B = nullptr
    /\ IF IsLeaf(S[i])
       THEN S[i].m_children = <<-1, -1>> /\ S[i].m_sub_path # nullptr
       ELSE /\ S[i].m_sub_path = nullptr
            /\ S[i].m_children[1] \in i..(Len(S) - 1)
            /\ S[i].m_children[2] \in i..(Len(S) - 1)
            /\ S[i].m_children[1] # S[i].m_children[2]

\* C11: immediately after construction the whole tree skeleton exists and
\* nothing is triangulated: every interior node has two children and no
\* SubPath, every leaf holds its SubPath, no node has painter data, fuzz
\* data or ready size bounds; and number_subsets() is final: no later call
\* changes the number of nodes, which is what number_subsets() returns.
C11_SkeletonAtConstruction ==
  /\ Len(m_subsets) >= 1
  /\ SkeletonOnly(m_subsets)
  /\ [][/\ Len(m_subsets') = Len(m_subsets)
        /\ m_call'.op = "number_subsets" => m_call'.return_value = Len(m_subsets)]_vars

\* number_subsets() has just returned on a freshly constructed tree of seven
\* nodes, one interior node being the child of another
C11_Witness ==
  /\ m_call.op = "number_subsets"
  /\ m_call.return_value = 7
  /\ SkeletonOnly(m_subsets)
  /\ \E i \in NodeIDs : \E d \in Descendants(m_subsets, i) : ~IsLeaf(m_subsets[d + 1])

\* no vertex id occurs twice in the contour C
SimpleContour(C) ==
  \A a, b \in DOMAIN C : a # b => C[a].m_vertex # C[b].m_vertex

\* how often the entry e occurs in the sequence s
Occurrences(s, e) == Cardinality({k \in DOMAIN s : s[k] = e})

\* the entries of the contours of output are, with their multiplicities,
\* those of C
SameEntries(output, C) ==
  /\ Len(Flatten(output)) = Len(C)
  /\ \A e \in Range(C) : Occurrences(Flatten(output), e) = Occurrences(C, e)

\* C12: for every input sequence of vertex ids (consecutive entries
\* distinct, first # last) every contour that unloop_contour produces is
\* simple, no vertex id occurring twice in it, and the multiset of all
\* output entries is that of the input.
C12_UnloopedContoursSimple ==
  (contour_out # nullptr /\ contour_out[1].op = "unloop_contour") =>
     /\ \A k \in DOMAIN contour_out[1].output : SimpleContour(contour_out[1].output[k])
     /\ SameEntries(contour_out[1].output, contour_in.C)

\* the entries are kept, and the contour left in C at the end is simple
C12_EntriesKept ==
  (contour_out # nullptr /\ contour_out[1].op = "unloop_contour") =>
     /\ SameEntries(contour_out[1].output, contour_in.C)
     /\ contour_out[1].output # << >>
     /\ SimpleContour(contour_out[1].output[Len(contour_out[1].output)])

\* every cyclically consecutive pair of points of C, the pair last -> first
\* included, has nonzero boundary progress
EveryEdgeProgresses(C) ==
  \A k \in DOMAIN C :
    boundary_progress(C[IF k = 1 THEN Len(C) ELSE k - 1].m_flags, C[k].m_flags) # 0

\* C13: contour_is_reducable(C) returns true exactly when every cyclically
\* consecutive pair of points of C (last -> first included) has nonzero
\* boundary progress, and a SubPath's num_points is the sum of the sizes of
\* its contours that are not reducible in that sense.
C13_ReducableIffEveryEdgeProgresses ==
  (contour_out # nullptr /\ contour_out[1].op = "SubPath") =>
     LET contours == contour_in.contours
     IN /\ \A k \in DOMAIN contours :
             contour_out[1].reducable[k] = EveryEdgeProgresses(contours[k])
        /\ contour_out[1].sub_path.m_num_points =
             SumSeq([k \in DOMAIN contours |->
                       IF EveryEdgeProgresses(contours[k]) THEN 0 ELSE Len(contours[k])])

\* contour_is_reducable returns false for every contour, whose last point is
\* compared with itself, and num_points counts every point
C13_NeverReducable ==
  (contour_out # nullptr /\ contour_out[1].op = "SubPath") =>
     LET contours == contour_in.contours
     IN /\ \A k \in DOMAIN contours : ~contour_out[1].reducable[k]
        /\ contour_out[1].sub_path.m_num_points =
             SumSeq([k \in DOMAIN contours |-> Len(contours[k])])

\* the signed sum of the boundary progress of the edges of C, the edge
\* last -> first included
ProgressSum(C) ==
  SumSeq([k \in DOMAIN C |->
            boundary_progress(C[IF k = 1 THEN Len(C) ELSE k - 1].m_flags, C[k].m_flags)])

\* what a contour of vertices adds to the winding offset
ContourContribution(C) ==
  IF Len(C) >= 3 /\ EveryEdgeProgresses(C) THEN -ProgressSum(C) ELSE 0

\* four times what the sub-contour C adds to the winding offset: the
\* contributions of the contours it is unlooped into
SubContourContribution(C) ==
  LET unlooped == unloop_contour(generate_contour(PointHoard(ContourBox), C).output)
  IN SumSeq([k \in DOMAIN unlooped |-> ContourContribution(unlooped[k])])

C14_OffsetReached ==
  /\ contour_out # nullptr
  /\ contour_out[1].op = "generate_path"
  /\ contour_out[1].return_value = -1
  /\ contour_out[1].path # << >>
  /\ contour_out[1].m_current_winding = 0

\* the point before point i of the contour src, cyclically
PrevPoint(src, i) == src[IF i = 1 THEN Len(src) ELSE i - 1]

\* the point q is on the side of the splitting value that goes to C0
\* (side = 0) or to C1 (side = 1)
OnSide(q, side) ==
  IF side = 0
  THEN q.p[contour_in.splitting_coordinate + 1] <= contour_in.splitting_value
  ELSE q.p[contour_in.splitting_coordinate + 1] >= contour_in.splitting_value

\* a crossing point is emitted into the half side between the point before
\* point i and point i
Crossing(src, i, side) == OnSide(PrevPoint(src, i), side) # OnSide(src[i], side)

\* where that crossing point is in the half: after the points emitted for
\* the points before i
CrossingIndex(src, i, side) ==
  1 + Cardinality({j \in 1..(i - 1) : Crossing(src, j, side)})
    + Cardinality({j \in 1..(i - 1) : OnSide(src[j], side)})

Half(side) == IF side = 0 THEN contour_out[1].C0 ELSE contour_out[1].C1

\* the boundary the split creates in the half side, and the boundary of the
\* parent that the half no longer touches
NewBoundary(side) ==
  IF contour_in.splitting_coordinate = 0
  THEN (IF side = 0 THEN on_max_x_boundary ELSE on_min_x_boundary)
  ELSE (IF side = 0 THEN on_max_y_boundary ELSE on_min_y_boundary)

InvalidatedBoundary(side) ==
  IF contour_in.splitting_coordinate = 0
  THEN (IF side = 0 THEN on_min_x_boundary ELSE on_max_x_boundary)
  ELSE (IF side = 0 THEN on_min_y_boundary ELSE on_max_y_boundary)

\* C15 as stated: the crossing point emitted into each half between prev and
\* pt carries the union of the boundary flags of prev and pt, minus the flag
\* invalidated by the split, plus the flag of the new boundary.
C15_CrossingCarriesUnion ==
  (contour_out # nullptr /\ contour_out[1].op = "split_contour") =>
     \A side \in {0, 1} : \A i \in DOMAIN contour_in.src :
        Crossing(contour_in.src, i, side) =>
           BitsOf(Half(side)[CrossingIndex(contour_in.src, i, side)].m_flags) =
             ((BitsOf(contour_in.src[i].m_flags)
                 \cup BitsOf(PrevPoint(contour_in.src, i).m_flags))
                \ {InvalidatedBoundary(side)}) \cup {NewBoundary(side)}

\* C15: the crossing point emitted into each half between prev and pt
\* carries the boundary flags that prev and pt both have, minus the flag
\* invalidated by the split, plus the flag of the new boundary.
C15_CrossingCarriesCommonFlags ==
  (contour_out # nullptr /\ contour_out[1].op = "split_contour") =>
     \A side \in {0, 1} : \A i \in DOMAIN contour_in.src :
        Crossing(contour_in.src, i, side) =>
           BitsOf(Half(side)[CrossingIndex(contour_in.src, i, side)].m_flags) =
             ((BitsOf(contour_in.src[i].m_flags)
                 \cap BitsOf(PrevPoint(contour_in.src, i).m_flags))
                \ {InvalidatedBoundary(side)}) \cup {NewBoundary(side)}

\* a crossing point was emitted into C0 between a point on the min-y
\* boundary only and a point on the max-y boundary only: it is on neither
C15_Witness ==
  /\ contour_out # nullptr
  /\ contour_out[1].op = "split_contour"
  /\ contour_in.splitting_coordinate = 0
  /\ \E i \in DOMAIN contour_in.src :
       /\ Crossing(contour_in.src, i, 0)
       /\ contour_in.src[i].m_flags = on_min_y_boundary
       /\ PrevPoint(contour_in.src, i).m_flags = on_max_y_boundary
       /\ Half(0)[CrossingIndex(contour_in.src, i, 0)].m_flags = on_max_x_boundary

\* C16: for a contour whose points all have good boundary bits, every point
\* of both contours that split_contour produces, kept or inserted, on either
\* axis, has neither both on_min_x and on_max_x nor both on_min_y and
\* on_max_y, so that the constructor's assertion holds for it.
C16_SplitKeepsGoodBoundaryBits ==
  (contour_out # nullptr /\ contour_out[1].op = "split_contour"
     /\ \A i \in DOMAIN contour_in.src : good_boundary_bits(contour_in.src[i].m_flags)) =>
     \A side \in {0, 1} : \A k \in DOMAIN Half(side) :
        LET f == Half(side)[k].m_flags
        IN /\ ~(HasBit(f, on_min_x_boundary) /\ HasBit(f, on_max_x_boundary))
           /\ ~(HasBit(f, on_min_y_boundary) /\ HasBit(f, on_max_y_boundary))
           /\ good_boundary_bits(f)

\* a crossing point was emitted into C0 between two points that both are on
\* the min-x boundary, and a point was kept
C16_Witness ==
  /\ contour_out # nullptr
  /\ contour_out[1].op = "split_contour"
  /\ contour_in.splitting_coordinate = 0
  /\ Len(contour_out[1].C0) >= 2
  /\ \E i \in DOMAIN contour_in.src :
       /\ Crossing(contour_in.src, i, 0)
       /\ HasBit(contour_in.src[i].m_flags, on_min_x_boundary)
       /\ HasBit(PrevPoint(contour_in.src, i).m_flags, on_min_x_boundary)
       /\ Half(0)[CrossingIndex(contour_in.src, i, 0)].m_flags = on_max_x_boundary

\* the position p is the grid point ipt moved on both axes by fudge_count
\* times fudge_delta, back when ipt is in the upper half and forth otherwise
OffsetTowardCentre(p, ipt, fudge_count) ==
  \A c \in {1, 2} :
    (p[c].whole - ipt[c]) * fudge_per_unit + p[c].frac =
      IF ipt[c] >= box_dim \div 2 THEN -fudge_count ELSE fudge_count

\* C17: within one tesser invocation the k-th delivered vertex is ipt(v)
\* offset on each axis by k * 2^-20 toward the centre of the box, and no two
\* deliveries yield the same coordinate pair, whether they are of the same
\* vertex id, of ids with equal ipt or of different ipt, for any number of
\* delivered vertices.
C17_DeliveredPointsDistinct ==
  (contour_out # nullptr /\ contour_out[1].op = "add_contour") =>
     LET delivered == contour_out[1].delivered
     IN /\ \A j \in DOMAIN delivered :
             /\ delivered[j].data = contour_in.C[j].m_vertex
             /\ OffsetTowardCentre(delivered[j].p, FudgeIpts[delivered[j].data + 1],
                                   contour_in.m_point_count + j - 1)
        /\ \A i, j \in DOMAIN delivered : i # j => delivered[i].p # delivered[j].p

\* as long as fewer than fudge_per_unit / 2 vertices are delivered, every
\* one is offset as above and no two deliveries coincide
C17_DistinctBelowHalfUnit ==
  (contour_out # nullptr /\ contour_out[1].op = "add_contour"
     /\ contour_out[1].m_point_count < fudge_per_unit \div 2) =>
     LET delivered == contour_out[1].delivered
     IN /\ \A j \in DOMAIN delivered :
             OffsetTowardCentre(delivered[j].p, FudgeIpts[delivered[j].data + 1],
                                contour_in.m_point_count + j - 1)
        /\ \A i, j \in DOMAIN delivered : i # j => delivered[i].p # delivered[j].p

\* the rectangle of the node n is completely clipped by the clip equations
\* of the call: clipping it against them leaves nothing
RectangleCompletelyClipped(n, clip_equations, clip_matrix_local) ==
  clip_against_planes(adjusted_clip_eqs(clip_equations, clip_matrix_local),
                      inflated_polygon(n.m_bounds_f)).clipped_rect = << >>

\* the leaf with the given id, realized (as it is, or as realizing it with
\* the triangulator at hand leaves it), is within the caps
LeafWithinCaps(id, max_attribute_cnt, max_index_cnt) ==
  LET n == m_subsets[id + 1]
  IN WithinCaps(IF n.m_sizes_ready THEN n ELSE realized_from_sub_path(n, ScriptKind(glu, id)),
                max_attribute_cnt, max_index_cnt)

\* the positions in dst of the leaf l or of an ancestor of it
CoveredAt(l) ==
  {k \in DOMAIN m_call.dst : l \in {m_call.dst[k]} \cup Descendants(m_subsets, m_call.dst[k])}

\* C18: in any tree state and for caps no leaf exceeds, the ids one
\* select_subsets call returns are an exact cover of the visible leaves:
\* a leaf whose rectangle is not completely clipped has exactly one of itself
\* and its ancestors in the output, a leaf whose rectangle is completely
\* clipped has none, no returned node is an ancestor of another returned
\* node, and the count returned does not exceed number_subsets().
C18_ExactCoverOfVisibleLeaves ==
  (/\ m_call.op = "select_subsets"
   /\ \A l \in LeafIDs(m_subsets) :
        LeafWithinCaps(l, m_call.max_attribute_cnt, m_call.max_index_cnt)) =>
     /\ \A l \in LeafIDs(m_subsets) :
          IF RectangleCompletelyClipped(m_subsets[l + 1], m_call.clip_equations,
                                        m_call.clip_matrix_local)
          THEN CoveredAt(l) = {}
          ELSE Cardinality(CoveredAt(l)) = 1
     /\ \A j, k \in DOMAIN m_call.dst :
          m_call.dst[j] \notin Descendants(m_subsets, m_call.dst[k])
     /\ m_call.return_value = Len(m_call.dst)
     /\ m_call.return_value <= Len(m_subsets)

\* select_subsets has returned on the seven-node tree, after earlier calls
\* that left an interior node with its sizes, with caps no leaf exceeds: two
\* leaves are covered by that interior node, written to dst, and another
\* leaf by itself
C18_Witness ==
  /\ m_call.op = "select_subsets"
  /\ Len(m_subsets) = 7
  /\ \A l \in LeafIDs(m_subsets) :
       LeafWithinCaps(l, m_call.max_attribute_cnt, m_call.max_index_cnt)
  /\ \E k \in DOMAIN m_call.dst : ~IsLeaf(m_subsets[m_call.dst[k] + 1])
  /\ \E k \in DOMAIN m_call.dst : IsLeaf(m_subsets[m_call.dst[k] + 1])

\* select_subsets has returned on the seven-node tree with caps no leaf
\* exceeds, a leaf written to dst and another leaf completely clipped
C18_ClippedLeafReached ==
  /\ m_call.op = "select_subsets"
  /\ Len(m_subsets) = 7
  /\ \A l \in LeafIDs(m_subsets) :
       LeafWithinCaps(l, m_call.max_attribute_cnt, m_call.max_index_cnt)
  /\ \E k \in DOMAIN m_call.dst : IsLeaf(m_subsets[m_call.dst[k] + 1])
  /\ \E l \in LeafIDs(m_subsets) :
       RectangleCompletelyClipped(m_subsets[l + 1], m_call.clip_equations,
                                  m_call.clip_matrix_local)

\* the node n with the size bounds of the node m
WithSizesOf(n, m) ==
  [n EXCEPT !.m_sizes_ready = m.m_sizes_ready,
            !.m_num_attributes = m.m_num_attributes,
            !.m_largest_index_block = m.m_largest_index_block,
            !.m_aa_largest_attribute_block = m.m_aa_largest_attribute_block,
            !.m_aa_largest_index_block = m.m_aa_largest_index_block]

\* C19: select_subsets realizes only leaves, and only those it reaches
\* through select_subsets_all_unculled with unknown size bounds; it changes
\* no node of a subtree pruned by clipping (nor any node whose rectangle is
\* completely clipped), builds no merged painter data for an interior node,
\* and the only change it makes to an interior node is setting its size
\* bounds, which were not ready.
C19_SelectRealizesOnlyUnculledLeaves ==
  [][m_call'.op = "select_subsets" =>
       /\ \A i \in NodeIDs :
            LET pre == m_subsets[i + 1]
                post == m_subsets'[i + 1]
            IN /\ IsLeaf(pre) =>
                    \/ post = pre
                    \/ /\ ~pre.m_sizes_ready
                       /\ ~Realized(pre)
                       /\ i \in Range(m_call'.unculled)
                       /\ post = realized_from_sub_path(pre, ScriptKind(glu, i))
               /\ ~IsLeaf(pre) =>
                    /\ post.m_painter_data = pre.m_painter_data
                    /\ post.m_fuzz_painter_data = pre.m_fuzz_painter_data
                    /\ WithSizesOf(post, pre) = pre
                    /\ post # pre =>
                         /\ ~pre.m_sizes_ready
                         /\ post.m_sizes_ready
                         /\ i \in Range(m_call'.unculled)
               /\ RectangleCompletelyClipped(pre, m_call'.clip_equations,
                                             m_call'.clip_matrix_local) => post = pre
       /\ \A k \in DOMAIN m_call'.pruned :
            \A d \in {m_call'.pruned[k]} \cup Descendants(m_subsets, m_call'.pruned[k]) :
               m_subsets'[d + 1] = m_subsets[d + 1]]_vars

\* select_subsets has returned having realized a leaf it wrote to dst and
\* pruned a subtree one of whose leaves holds its SubPath still
C19_Witness ==
  /\ m_call.op = "select_subsets"
  /\ \E k \in DOMAIN m_call.dst :
       IsLeaf(m_subsets[m_call.dst[k] + 1]) /\ Realized(m_subsets[m_call.dst[k] + 1])
  /\ \E k \in DOMAIN m_call.pruned :
       \E d \in {m_call.pruned[k]} \cup Descendants(m_subsets, m_call.pruned[k]) :
          IsLeaf(m_subsets[d + 1]) /\ m_subsets[d + 1].m_sub_path # nullptr

\* select_subsets has returned with an interior node among those it went
\* through unculled that has its sizes and no painter data
C19_InteriorSizesReached ==
  /\ m_call.op = "select_subsets"
  /\ \E k \in DOMAIN m_call.unculled :
       /\ ~IsLeaf(m_subsets[m_call.unculled[k] + 1])
       /\ m_subsets[m_call.unculled[k] + 1].m_sizes_ready
       /\ ~Realized(m_subsets[m_call.unculled[k] + 1])

\* the four metrics of the node n
FourMetrics(n) ==
  <<n.m_num_attributes, n.m_largest_index_block,
    n.m_aa_largest_attribute_block, n.m_aa_largest_index_block>>

\* the sums, metric by metric, of the metrics of the children of node i of S
ChildrenSums(S, i) ==
  [k \in 1..4 |-> FourMetrics(S[S[i + 1].m_children[1] + 1])[k]
                    + FourMetrics(S[S[i + 1].m_children[2] + 1])[k]]

\* C20: the size bounds an interior node gets from ready_sizes_from_children
\* are the sums of the four metrics of its children, both of which have
\* their sizes ready; and they are upper bounds: once a node has its sizes,
\* no later call makes any of the four greater, the exact values that
\* make_ready_from_children installs from the merged data included, so that
\* a node within the caps stays within them when it is realized.
C20_SummedBoundsAreUpperBounds ==
  [][\A i \in NodeIDs :
       LET pre == m_subsets[i + 1]
           post == m_subsets'[i + 1]
       IN /\ (~IsLeaf(pre) /\ ~pre.m_sizes_ready /\ post.m_sizes_ready /\ ~Realized(post)) =>
               /\ m_call'.op = "select_subsets"
               /\ m_subsets'[pre.m_children[1] + 1].m_sizes_ready
               /\ m_subsets'[pre.m_children[2] + 1].m_sizes_ready
               /\ FourMetrics(post) = ChildrenSums(m_subsets', i)
          /\ pre.m_sizes_ready =>
               /\ post.m_sizes_ready
               /\ \A k \in 1..4 : FourMetrics(post)[k] <= FourMetrics(pre)[k]
               /\ \A caps \in SizeCaps :
                    WithinCaps(pre, caps[1], caps[2]) => WithinCaps(post, caps[1], caps[2])
          /\ (~IsLeaf(pre) /\ Realized(post)) =>
               \A k \in 1..4 : FourMetrics(post)[k] <= ChildrenSums(m_subsets', i)[k]]_vars

\* select_subsets has returned having gone through an interior node
\* unculled: the node is not written, its sizes are the sums of those of its
\* children, which are ready, and it has no painter data
C20_Witness ==
  /\ m_call.op = "select_subsets"
  /\ \E k \in DOMAIN m_call.unculled :
       LET i == m_call.unculled[k]
           n == m_subsets[i + 1]
       IN /\ ~IsLeaf(n)
          /\ n.m_sizes_ready
          /\ ~Realized(n)
          /\ i \notin Range(m_call.dst)
          /\ m_subsets[n.m_children[1] + 1].m_sizes_ready
          /\ m_subsets[n.m_children[2] + 1].m_sizes_ready
          /\ FourMetrics(n) = ChildrenSums(m_subsets, i)
          /\ \A j \in 1..4 : FourMetrics(n)[j] > 0

\* realizing an interior node whose summed bounds were ready leaves its four
\* metrics as they were; a step that violates this formula installs an exact
\* value below the bound
C20_NoBoundEverLowered ==
  [][\A i \in NodeIDs :
       (~IsLeaf(m_subsets[i + 1]) /\ m_subsets[i + 1].m_sizes_ready
          /\ ~Realized(m_subsets[i + 1]) /\ Realized(m_subsets'[i + 1])) =>
         FourMetrics(m_subsets'[i + 1]) = FourMetrics(m_subsets[i + 1])]_vars

\* ---------------------------------------------------------------------
\* C21
\* ---------------------------------------------------------------------
\* the constructor calls that built the subtree of node id of S, the call
\* for id having had the arguments Q and max_recursion: one record per node
RECURSIVE ConstructorCalls(_, _, _, _)
ConstructorCalls(S, id, Q, max_recursion) ==
  {[id |-> id, Q |-> Q, max_recursion |-> max_recursion]}
  \cup IF HasChildren(S[id + 1])
       THEN LET sp == split(Q)
            IN ConstructorCalls(S, S[id + 1].m_children[1], sp.C[1], max_recursion - 1)
               \cup ConstructorCalls(S, S[id + 1].m_children[2], sp.C[2], max_recursion - 1)
       ELSE {}

\* the split of Q gives a child with fewer points than Q has
SplitLowersPointCount(Q) ==
  LET sp == split(Q)
  IN sp.C[1].m_num_points < Q.m_num_points \/ sp.C[2].m_num_points < Q.m_num_points

\* C21: a node has children exactly when its constructor was given a
\* recursion budget above 0 and a SubPath of more than points_per_subset
\* points one of whose two halves has fewer points than it has; any other
\* node is a leaf that keeps the SubPath it was given, and the list of
\* nodes holds nothing but the nodes of the tree
C21_SplitsExactlyWhenUseful ==
  (contour_out # nullptr /\ contour_out[1].op = "SubsetPrivate") =>
    LET S == contour_out[1].out_values
        calls == ConstructorCalls(S, 0, contour_in.Q, contour_in.max_recursion)
    IN /\ Cardinality(calls) = Len(S)
       /\ \A c \in calls :
            /\ HasChildren(S[c.id + 1]) <=>
                 /\ c.max_recursion > 0
                 /\ c.Q.m_num_points > points_per_subset
                 /\ SplitLowersPointCount(c.Q)
            /\ ~HasChildren(S[c.id + 1]) =>
                 /\ S[c.id + 1].m_sub_path = <<c.Q>>
                 /\ S[c.id + 1].m_children = <<-1, -1>>

\* a tree with an interior root one of whose children is a leaf of more
\* than points_per_subset points, made a leaf by its budget of 0
C21_Witness ==
  /\ contour_out # nullptr
  /\ contour_out[1].op = "SubsetPrivate"
  /\ contour_in.max_recursion = 1
  /\ HasChildren(contour_out[1].out_values[1])
  /\ \E i \in 2..Len(contour_out[1].out_values) :
       /\ ~HasChildren(contour_out[1].out_values[i])
       /\ contour_out[1].out_values[i].m_sub_path[1].m_num_points > points_per_subset

\* a SubPath of more than points_per_subset points neither half of which
\* has fewer points is given a budget above 0 and stays a leaf
C21_UselessSplitReached ==
  /\ contour_out # nullptr
  /\ contour_out[1].op = "SubsetPrivate"
  /\ contour_in.max_recursion > 0
  /\ contour_in.Q.m_num_points > points_per_subset
  /\ ~HasChildren(contour_out[1].out_values[1])
  /\ Len(contour_out[1].out_values) = 1

\* ---------------------------------------------------------------------
\* C22
\* ---------------------------------------------------------------------
\* the nodes of the subtree of node id of S with their depth below the
\* root, id being at depth d
RECURSIVE NodeDepths(_, _, _)
NodeDepths(S, id, d) ==
  {<<id, d>>}
  \cup IF HasChildren(S[id + 1])
       THEN NodeDepths(S, S[id + 1].m_children[1], d + 1)
            \cup NodeDepths(S, S[id + 1].m_children[2], d + 1)
       ELSE {}

\* C22: the construction ends with a finite tree in which no node is
\* deeper below the root than the recursion budget the root was given, and
\* which has at most 2^(budget + 1) - 1 nodes; create_root_subset gives the
\* budget 12, so that no node is deeper than 12 and number_subsets() is at
\* most 2^13 - 1
C22_DepthWithinBudget ==
  /\ recursion_depth = 12
  /\ (contour_out # nullptr /\ contour_out[1].op = "SubsetPrivate") =>
       LET S == contour_out[1].out_values
           depths == NodeDepths(S, 0, 0)
       IN /\ Cardinality(depths) = Len(S)
          /\ \A nd \in depths : nd[2] <= contour_in.max_recursion
          /\ Len(S) <= 2 ^ (contour_in.max_recursion + 1) - 1
          /\ contour_in.max_recursion = recursion_depth =>
               /\ \A nd \in depths : nd[2] <= 12
               /\ Len(S) <= 2 ^ 13 - 1

\* the budget ends the recursion: a node as deep as the budget of the
\* root, which is above 0, holds a SubPath of more than points_per_subset
\* points whose split would lower the point count
C22_Witness ==
  /\ contour_out # nullptr
  /\ contour_out[1].op = "SubsetPrivate"
  /\ contour_in.max_recursion > 0
  /\ \E nd \in NodeDepths(contour_out[1].out_values, 0, 0) :
       LET n == contour_out[1].out_values[nd[1] + 1]
       IN /\ nd[2] = contour_in.max_recursion
          /\ HasSubPath(n)
          /\ n.m_sub_path[1].m_num_points > points_per_subset
          /\ SplitLowersPointCount(n.m_sub_path[1])

\* create_root_subset has built a tree with interior nodes
C22_RootBudgetReached ==
  /\ contour_out # nullptr
  /\ contour_out[1].op = "SubsetPrivate"
  /\ contour_in.max_recursion = recursion_depth
  /\ Len(contour_out[1].out_values) > 3

\* ---------------------------------------------------------------------
\* C23
\* ---------------------------------------------------------------------
\* the windings whose component the tesser left with a triangle
WithTriangles(b) == {w \in DOMAIN b.tessellated : b.tessellated[w].m_triangles > 0}

\* the windings whose component the tesser left without any triangle
WithoutTriangles(b) == DOMAIN b.tessellated \ WithTriangles(b)

\* C23: of the components the tesser left, the builder keeps those with a
\* triangle and erases the others together with their edges; exactly when
\* none is kept it makes one component, keyed by the winding offset, of the
\* two triangles over the corners of the bounding rectangle; so that the
\* winding-number list of every realized leaf is not empty and every
\* winding in it has a triangle
C23_PurgeThenBoundingRectangle ==
  \A i \in NodeIDs :
    m_subsets[i + 1].B # nullptr =>
      LET n == m_subsets[i + 1]
          b == n.B[1]
          fuzz == n.m_fuzz_painter_data[1]
      IN /\ b.hoard_empty <=> WithTriangles(b) = {}
         /\ ~b.hoard_empty =>
              /\ DOMAIN b.m_triangles = WithTriangles(b)
              /\ \A w \in WithTriangles(b) :
                   Len(b.m_triangles[w]) = b.tessellated[w].m_triangles
         /\ b.hoard_empty =>
              /\ DOMAIN b.m_triangles = {b.winding_offset}
              /\ Len(b.m_triangles[b.winding_offset]) = 6
              /\ IsBoundingRectangle(n)
         /\ \A w \in WithoutTriangles(b) \ DOMAIN b.m_triangles :
              /\ attribute_data_chunk(fuzz, aa_fuzz_chunk_from_winding_number(w)) = << >>
              /\ index_data_chunk(fuzz, aa_fuzz_chunk_from_winding_number(w)) = << >>
         /\ n.m_winding_numbers # << >>
         /\ Range(n.m_winding_numbers) = DOMAIN b.m_triangles
         /\ \A w \in Range(n.m_winding_numbers) : Len(b.m_triangles[w]) >= 3

\* a realized leaf whose builder erased a component that had edges and no
\* triangle and kept another one, and a realized leaf whose builder kept
\* none and made the bounding rectangle
C23_Witness ==
  /\ \E i \in NodeIDs :
       /\ m_subsets[i + 1].B # nullptr
       /\ ~m_subsets[i + 1].B[1].hoard_empty
       /\ \E w \in WithoutTriangles(m_subsets[i + 1].B[1]) :
            m_subsets[i + 1].B[1].tessellated[w].m_edge_count > 0
  /\ \E i \in NodeIDs :
       /\ m_subsets[i + 1].B # nullptr
       /\ m_subsets[i + 1].B[1].hoard_empty
       /\ WithoutTriangles(m_subsets[i + 1].B[1]) # {}

\* ---------------------------------------------------------------------
\* C24
\* ---------------------------------------------------------------------
\* the attribute without its Z value, which the merge of fuzz data raises
WithoutZ(A) == [A EXCEPT !.m_attrib1 = [@ EXCEPT ![2] = 0]]

\* the attribute chunk the indices of index chunk i address
AddressedChunk(common_attribute_chunking, i) ==
  IF common_attribute_chunking THEN 0 ELSE i

\* dst is the merge of a and b as C24 describes it
MergedAsClaimed(dst, a, b, common_attribute_chunking) ==
  /\ Len(dst.attribute_data_chunks)
       = t_max(Len(a.attribute_data_chunks), Len(b.attribute_data_chunks))
  /\ Len(dst.index_data_chunks) = t_max(Len(a.index_data_chunks), Len(b.index_data_chunks))
  /\ \A i \in 0..(Len(dst.attribute_data_chunks) - 1) :
       LET A == attribute_data_chunk(a, i)
           B == attribute_data_chunk(b, i)
           D == attribute_data_chunk(dst, i)
       IN /\ Len(D) = Len(A) + Len(B)
          /\ \A k \in DOMAIN A :
               IF common_attribute_chunking THEN D[k] = A[k]
               ELSE WithoutZ(D[k]) = WithoutZ(A[k])
          /\ \A k \in DOMAIN B : D[Len(A) + k] = B[k]
  /\ \A i \in 0..(Len(dst.index_data_chunks) - 1) :
       LET c == AddressedChunk(common_attribute_chunking, i)
           IA == index_data_chunk(a, i)
           IB == index_data_chunk(b, i)
           ID == index_data_chunk(dst, i)
           A == attribute_data_chunk(a, c)
           B == attribute_data_chunk(b, c)
           D == attribute_data_chunk(dst, c)
       IN /\ Len(ID) = Len(IA) + Len(IB)
          /\ \A k \in DOMAIN IA : ID[k] = IA[k]
          /\ \A k \in DOMAIN IB : ID[Len(IA) + k] = IB[k] + Len(A)
          /\ \A k \in DOMAIN ID : ID[k] >= 0 /\ ID[k] < Len(D)
          /\ \A k \in DOMAIN IA : WithoutZ(D[ID[k] + 1]) = WithoutZ(A[IA[k] + 1])
          /\ \A k \in DOMAIN IB : D[ID[Len(IA) + k] + 1] = B[IB[k] + 1]

\* C24: the fill data and the fuzz data of every node realized from its
\* children are the children's data merged: attribute chunk i is that of
\* the first child followed by that of the second (the fuzz attributes of
\* the first child with their Z raised), index chunk i is the indices of
\* the first child followed by those of the second raised by the size of
\* the first child's attribute chunk they address (chunk 0 in fill data,
\* chunk i in fuzz data), and every index names, within the merged
\* attribute chunk it addresses, the attribute it named in its child
C24_MergedIndicesStayValid ==
  \A i \in NodeIDs :
    (HasChildren(m_subsets[i + 1]) /\ Realized(m_subsets[i + 1])) =>
      LET n == m_subsets[i + 1]
          c0 == m_subsets[n.m_children[1] + 1]
          c1 == m_subsets[n.m_children[2] + 1]
      IN /\ Realized(c0) /\ Realized(c1)
         /\ MergedAsClaimed(n.m_painter_data[1], c0.m_painter_data[1],
                            c1.m_painter_data[1], TRUE)
         /\ MergedAsClaimed(n.m_fuzz_painter_data[1], c0.m_fuzz_painter_data[1],
                            c1.m_fuzz_painter_data[1], FALSE)

\* a node realized from two children whose fill data differ in their
\* number of index chunks and whose fuzz data differ in their number of
\* chunks, the second child bringing indices to a fill chunk other than 0
\* and to a fuzz chunk in which the first has attributes
C24_Witness ==
  \E i \in NodeIDs :
    /\ HasChildren(m_subsets[i + 1])
    /\ Realized(m_subsets[i + 1])
    /\ LET n == m_subsets[i + 1]
           a == m_subsets[n.m_children[1] + 1]
           b == m_subsets[n.m_children[2] + 1]
       IN /\ Len(a.m_painter_data[1].index_data_chunks)
               # Len(b.m_painter_data[1].index_data_chunks)
          /\ Len(a.m_fuzz_painter_data[1].attribute_data_chunks)
               # Len(b.m_fuzz_painter_data[1].attribute_data_chunks)
          /\ attribute_data_chunk(a.m_painter_data[1], 0) # << >>
          /\ \E c \in 1..Len(b.m_painter_data[1].index_data_chunks) :
               c > 1 /\ b.m_painter_data[1].index_data_chunks[c] # << >>
          /\ \E c \in 1..Len(b.m_fuzz_painter_data[1].index_data_chunks) :
               /\ b.m_fuzz_painter_data[1].index_data_chunks[c] # << >>
               /\ attribute_data_chunk(a.m_fuzz_painter_data[1], c - 1) # << >>

\* ---------------------------------------------------------------------
\* C25
\* ---------------------------------------------------------------------
\* the Z values of the attributes of a chunk, in their order
ZValues(chunk) == [k \in DOMAIN chunk |-> chunk[k].m_attrib1[2]]

\* the edge count of the component a fuzz chunk of a realized leaf is
\* packed from, 0 when no winding of the leaf has this chunk
ChunkEdgeCount(n, c) ==
  LET W == {w \in Range(n.m_winding_numbers) :
              aa_fuzz_chunk_from_winding_number(w) = c /\ w \in DOMAIN n.B[1].tessellated}
  IN IF W = {} THEN 0 ELSE n.B[1].tessellated[CHOOSE w \in W : TRUE].m_edge_count

\* C25, realized leaves: in each fuzz chunk the Z values are exactly the
\* values of [0, edge_count), each on the 3, 4 or 7 attributes of one edge,
\* and the z-range of the chunk is [0, edge_count)
LeafZLayers(n) ==
  LET fuzz == n.m_fuzz_painter_data[1]
  IN \A c \in 0..(Len(fuzz.attribute_data_chunks) - 1) :
       LET zs == ZValues(attribute_data_chunk(fuzz, c))
           edge_count == ChunkEdgeCount(n, c)
       IN /\ z_range(fuzz, c) = range_type(0, edge_count)
          /\ Range(zs) = 0..(edge_count - 1)
          /\ \A z \in Range(zs) :
               Cardinality({k \in DOMAIN zs : zs[k] = z}) \in {3, 4, 7}

\* C25, nodes merged from the children a and b: in each fuzz chunk every Z
\* of an attribute that came from a is above every Z of one that came from
\* b, every Z lies in the z-range of the chunk, and that range is
\* [0, end of a's + end of b's)
MergedZLayers(n, a, b) ==
  LET fuzz == n.m_fuzz_painter_data[1]
      fa == a.m_fuzz_painter_data[1]
      fb == b.m_fuzz_painter_data[1]
  IN \A c \in 0..(Len(fuzz.attribute_data_chunks) - 1) :
       LET zs == ZValues(attribute_data_chunk(fuzz, c))
           na == Len(attribute_data_chunk(fa, c))
       IN /\ z_range(fuzz, c) = range_type(0, z_range(fa, c).m_end + z_range(fb, c).m_end)
          /\ \A k \in DOMAIN zs : zs[k] >= 0 /\ zs[k] < z_range(fuzz, c).m_end
          /\ \A k \in 1..na : \A j \in (na + 1)..Len(zs) : zs[k] > zs[j]

\* C25: the Z layers of the fuzz data are consistent in every realized
\* node, a leaf or a node merged from its children, and every z-range
\* begins at 0
C25_FuzzZLayers ==
  \A i \in NodeIDs :
    Realized(m_subsets[i + 1]) =>
      LET n == m_subsets[i + 1]
      IN /\ \A c \in 0..(Len(n.m_fuzz_painter_data[1].z_ranges) - 1) :
              z_range(n.m_fuzz_painter_data[1], c).m_begin = 0
         /\ ~HasChildren(n) => LeafZLayers(n)
         /\ HasChildren(n) =>
              MergedZLayers(n, m_subsets[n.m_children[1] + 1], m_subsets[n.m_children[2] + 1])

\* a realized leaf with a fuzz chunk of at least two edges, and a node
\* merged from two children that both have attributes in one fuzz chunk
C25_Witness ==
  /\ \E i \in NodeIDs :
       /\ Realized(m_subsets[i + 1])
       /\ ~HasChildren(m_subsets[i + 1])
       /\ \E c \in 0..(Len(m_subsets[i + 1].m_fuzz_painter_data[1].z_ranges) - 1) :
            z_range(m_subsets[i + 1].m_fuzz_painter_data[1], c).m_end >= 2
  /\ \E i \in NodeIDs :
       /\ Realized(m_subsets[i + 1])
       /\ HasChildren(m_subsets[i + 1])
       /\ LET n == m_subsets[i + 1]
              fa == m_subsets[n.m_children[1] + 1].m_fuzz_painter_data[1]
              fb == m_subsets[n.m_children[2] + 1].m_fuzz_painter_data[1]
          IN \E c \in 0..(Len(fa.attribute_data_chunks) - 1) :
               /\ attribute_data_chunk(fa, c) # << >>
               /\ attribute_data_chunk(fb, c) # << >>

\* ---------------------------------------------------------------------
\* C26
\* ---------------------------------------------------------------------
\* the edges of the boundary given by vertex_ids and winding_ids to a
\* polygon of winding glu_tess_winding, as C26 describes them
ClaimedEdges(H, glu_tess_winding, vertex_ids, winding_ids) ==
  LET n == Len(vertex_ids)
      Vertex(i) == vertex_ids[((i - 1) % n) + 1]
      DrawEdge(i) == /\ ~edge_hugs_boundary(H, Vertex(i), Vertex(i + 1))
                     /\ winding_ids[((i - 1) % n) + 1] # glu_tess_winding
  IN [i \in 1..n |->
        [m_start |-> Vertex(i), m_end |-> Vertex(i + 1), m_next |-> Vertex(i + 2),
         m_draw_edge |-> DrawEdge(i), m_draw_bevel |-> DrawEdge(i) \/ DrawEdge(i + 1)]]

\* 4 attributes and 6 indices for each drawn edge, 3 and 3 for each bevel
ClaimedAttributeCount(edges) ==
  4 * Cardinality({k \in DOMAIN edges : edges[k].m_draw_edge})
  + 3 * Cardinality({k \in DOMAIN edges : edges[k].m_draw_bevel})

ClaimedIndexCount(edges) ==
  6 * Cardinality({k \in DOMAIN edges : edges[k].m_draw_edge})
  + 3 * Cardinality({k \in DOMAIN edges : edges[k].m_draw_bevel})

\* C26: of a closed boundary of n edges given between begin_boundary and
\* end_boundary, edge i is drawn when it does not hug the boundary and the
\* winding on its other side is not the polygon's, its next vertex is the
\* end of the edge after it, its bevel is drawn when it or the edge after it
\* is drawn; the edge list gets exactly the edges with a drawn edge or
\* bevel, in order, after those it held, and its counts are 4 attributes
\* and 6 indices per drawn edge, 3 and 3 per drawn bevel, and the number of
\* edges stored
C26_BoundaryEdgesThreaded ==
  (contour_out # nullptr /\ contour_out[1].op = "emitmonotone_callback") =>
    LET claimed == ClaimedEdges(MonotoneHoard, contour_in.glu_tess_winding,
                                contour_in.vertex_ids, contour_in.winding_ids)
        stored == SelectSeq(claimed, LAMBDA e : e.m_draw_edge \/ e.m_draw_bevel)
        L1 == contour_out[1].m_edge_list
        L2 == contour_out[1].second
    IN /\ contour_out[1].windings = {1 + contour_in.glu_tess_winding}
       /\ L1.m_edges = stored
       /\ L1.m_attribute_count = ClaimedAttributeCount(stored)
       /\ L1.m_index_count = ClaimedIndexCount(stored)
       /\ L1.m_edge_count = Len(stored)
       /\ L2.m_edges = stored \o stored
       /\ L2.m_attribute_count = 2 * ClaimedAttributeCount(stored)
       /\ L2.m_index_count = 2 * ClaimedIndexCount(stored)
       /\ L2.m_edge_count = 2 * Len(stored)

\* a boundary of three edges of which one is stored for its edge and its
\* bevel, one for its bevel alone, and one is not stored
C26_Witness ==
  /\ contour_out # nullptr
  /\ contour_out[1].op = "emitmonotone_callback"
  /\ Len(contour_in.vertex_ids) = 3
  /\ contour_out[1].m_edge_list.m_edge_count = 2
  /\ contour_out[1].m_edge_list.m_attribute_count = 10
  /\ contour_out[1].m_edge_list.m_index_count = 12
  /\ \E k \in 1..2 : /\ ~contour_out[1].m_edge_list.m_edges[k].m_draw_edge
                     /\ contour_out[1].m_edge_list.m_edges[k].m_draw_bevel

\* ---------------------------------------------------------------------
\* C27
\* ---------------------------------------------------------------------
\* the contours generate_contour and unloop_contour make of the contours
\* of a SubPath, the hoard being passed from one contour to the next
RECURSIVE UnloopedOf(_, _, _)
UnloopedOf(H, contours, k) ==
  IF k > Len(contours) THEN << >>
  ELSE LET g == generate_contour(H, contours[k])
       IN unloop_contour(g.output) \o UnloopedOf(g.H, contours, k + 1)

\* C27: the assertion bcount % 4 == 0 of reduce_contour never fails: the
\* boundary progress summed over a contour of at least 3 points whose
\* every cyclic edge has nonzero progress is a multiple of 4, for every
\* contour handed to reduce_contour and for every contour generate_contour
\* and unloop_contour make of the contours of a SubPath, and the value
\* returned times 4 is the sum with its sign changed
C27_ProgressIsMultipleOfFour ==
  /\ (contour_out # nullptr /\ contour_out[1].op = "reduce_contour") =>
       /\ ~contour_out[1].asserted
       /\ (Len(contour_in.C) >= 3 /\ EveryEdgeProgresses(contour_in.C)) =>
            /\ ProgressSum(contour_in.C) % 4 = 0
            /\ contour_out[1].return_value = -(ProgressSum(contour_in.C) \div 4)
  /\ (contour_out # nullptr /\ contour_out[1].op = "generate_path") =>
       /\ ~contour_out[1].asserted
       /\ LET unlooped == UnloopedOf(PointHoard(ContourBox), contour_in.contours, 1)
          IN \A k \in DOMAIN unlooped :
               (Len(unlooped[k]) >= 3 /\ EveryEdgeProgresses(unlooped[k])) =>
                 ProgressSum(unlooped[k]) % 4 = 0

\* generate_path was given a contour twice around the corners and one back
\* and forth along them: reduce_contour got two contours of progress 4 and
\* one of progress 0 whose every edge progresses
C27_Witness ==
  /\ contour_out # nullptr
  /\ contour_out[1].op = "generate_path"
  /\ LET unlooped == UnloopedOf(PointHoard(ContourBox), contour_in.contours, 1)
     IN /\ Cardinality({k \in DOMAIN unlooped :
                          /\ Len(unlooped[k]) >= 3
                          /\ EveryEdgeProgresses(unlooped[k])
                          /\ ProgressSum(unlooped[k]) = 4}) = 2
        /\ \E k \in DOMAIN unlooped :
             /\ Len(unlooped[k]) >= 3
             /\ EveryEdgeProgresses(unlooped[k])
             /\ ProgressSum(unlooped[k]) = 0
  /\ contour_out[1].return_value = -2

\* ---------------------------------------------------------------------
\* C28
\* ---------------------------------------------------------------------
\* C28: the integer point of the hoard entry that fetch_discretized,
\* fetch_undiscretized or fetch_corner returns has both coordinates in
\* [1, 1 + 2^24], wherever the point given lies and whatever valid flags
\* come with it; with a boundary flag the coordinate of that axis is 1
\* (min) or 1 + 2^24 (max); every integer point of the hoard is in the
\* range, and m_pts and m_ipts have the same length
C28_StoredPointsOnTheGrid ==
  (contour_out # nullptr
     /\ contour_out[1].op \in {"fetch_discretized", "fetch_undiscretized", "fetch_corner"}) =>
    LET H == contour_out[1].H
        I == contour_out[1].return_value
        fl == contour_in.flags
    IN /\ Len(H.m_pts) = Len(H.m_ipts)
       /\ I >= 0 /\ I < Len(H.m_ipts)
       /\ \A k \in DOMAIN H.m_ipts :
            /\ H.m_ipts[k][1] >= 1 /\ H.m_ipts[k][1] <= 1 + 2 ^ 24
            /\ H.m_ipts[k][2] >= 1 /\ H.m_ipts[k][2] <= 1 + 2 ^ 24
       /\ contour_in.f = "fetch_discretized" =>
            /\ HasBit(fl, on_min_x_boundary) => H.m_ipts[I + 1][1] = 1
            /\ HasBit(fl, on_max_x_boundary) => H.m_ipts[I + 1][1] = 1 + 2 ^ 24
            /\ HasBit(fl, on_min_y_boundary) => H.m_ipts[I + 1][2] = 1
            /\ HasBit(fl, on_max_y_boundary) => H.m_ipts[I + 1][2] = 1 + 2 ^ 24
       /\ contour_in.f = "fetch_corner" =>
            H.m_ipts[I + 1] = <<IF contour_in.pt[1] THEN 1 + 2 ^ 24 ELSE 1,
                                IF contour_in.pt[2] THEN 1 + 2 ^ 24 ELSE 1>>

\* fetch_discretized has stored a point that lies beyond the max x side of
\* the box and carries the flag of the min y side next to the corner the
\* hoard held
C28_Witness ==
  /\ contour_out # nullptr
  /\ contour_out[1].op = "fetch_discretized"
  /\ contour_in.pt[1] = 7
  /\ contour_in.flags = on_min_y_boundary
  /\ Len(contour_in.H.m_ipts) = 1
  /\ contour_out[1].return_value = 1
  /\ contour_out[1].H.m_ipts[2] = <<1 + box_dim, 1>>

\* fetch_undiscretized has stored a point whose scaled x is beyond the
\* range of int, the conversion having yielded INT_MAX
C28_BeyondIntReached ==
  /\ contour_out # nullptr
  /\ contour_out[1].op = "fetch_undiscretized"
  /\ contour_in.pt = <<1000, 2>>
  /\ contour_out[1].H.m_ipts[Len(contour_out[1].H.m_ipts)] = <<1 + box_dim, 1 + box_dim \div 2>>

\* ---------------------------------------------------------------------
\* C29
\* ---------------------------------------------------------------------
\* the box has strictly positive width and height
PositiveExtent(bb) == bb.m_max[1] > bb.m_min[1] /\ bb.m_max[2] > bb.m_min[2]

\* C29: when the bounding box of the SubPath the root is constructed on
\* has positive width and height, the bounding box of every node of the
\* subset tree has strictly positive width and height, so that no
\* CoordinateConverter is built on a box of zero extent
C29_NodeBoxesPositive ==
  (contour_out # nullptr /\ contour_out[1].op = "SubsetPrivate"
     /\ PositiveExtent(contour_in.Q.m_bounds)) =>
    \A i \in DOMAIN contour_out[1].out_values :
      PositiveExtent(contour_out[1].out_values[i].m_bounds)

\* the root built on the triangle has split along y at the value 0, and
\* so has its second child, whose box has 0 as its min side: the first
\* child of that child is a leaf whose box has height 0 and whose SubPath
\* holds points
C29_ZeroExtentLeafReached ==
  /\ contour_out # nullptr
  /\ contour_out[1].op = "SubsetPrivate"
  /\ PositiveExtent(contour_in.Q.m_bounds)
  /\ contour_in.max_recursion = 2
  /\ Len(contour_out[1].out_values) = 5
  /\ contour_out[1].out_values[1].m_splitting_coordinate = 1
  /\ contour_out[1].out_values[1].m_children = <<1, 2>>
  /\ contour_out[1].out_values[3].m_children = <<3, 4>>
  /\ PositiveExtent(contour_out[1].out_values[3].m_bounds)
  /\ LET n == contour_out[1].out_values[4]
     IN /\ ~HasChildren(n)
        /\ n.m_bounds.m_min[2] = n.m_bounds.m_max[2]
        /\ n.m_bounds.m_min[1] < n.m_bounds.m_max[1]
        /\ n.m_sub_path[1].m_num_points > 0

\* ---------------------------------------------------------------------
\* C30
\* ---------------------------------------------------------------------
\* the total width of a set of allocations
RECURSIVE TotalWidth(_)
TotalWidth(S) ==
  IF S = {} THEN 0
  ELSE LET a == CHOOSE a0 \in S : TRUE IN a.width + TotalWidth(S \ {a})

\* the keys of m_available_layers whose set holds layer y
KeysOfLayer(d, y) == {k \in DOMAIN d.m_available_layers : y \in d.m_available_layers[k]}

\* C30: after any sequence of allocate and deallocate calls on an atlas,
\* growth of a resizeable backing store included: every layer y is in
\* m_available_layers under exactly one key, which is the
\* largest_free_interval() of the allocator of y; no key maps to an empty
\* set; m_allocated is the total width of the live allocations, so that
\* total_available() is width * layers less that total; and the layer
\* allocate picked had a largest free interval of at least the width asked
C30_AtlasBookkeepingConsistent ==
  m_d # nullptr =>
    LET d == m_d[1]
        width == d.m_backing_store.m_dimensions[1]
        layers == d.m_backing_store.m_dimensions[2]
    IN /\ Len(d.m_layer_allocator) = layers
       /\ \A y \in 0..(layers - 1) :
            KeysOfLayer(d, y) = {largest_free_interval(d.m_layer_allocator[y + 1])}
       /\ \A k \in DOMAIN d.m_available_layers :
            /\ d.m_available_layers[k] # {}
            /\ d.m_available_layers[k] \subseteq 0..(layers - 1)
       /\ d.m_allocated = TotalWidth(allocations)
       /\ total_available(d) = width * layers - TotalWidth(allocations)
       /\ (atlas_call.op = "allocate" /\ atlas_call.return_value # <<-1, -1>>) =>
            /\ atlas_call.old_max >= atlas_call.width
            /\ atlas_call.return_value[1] >= 0

\* allocate has grown the backing store from one layer, which is full, to
\* two and has placed the data in the new layer, leaving a free interval
\* of one texel there
C30_Witness ==
  /\ m_d # nullptr
  /\ atlas_call.op = "allocate"
  /\ atlas_call.old_size = 1
  /\ Len(m_d[1].m_layer_allocator) = 2
  /\ atlas_call.return_value[2] = 1
  /\ atlas_call.width = 2
  /\ m_d[1].m_backing_store.m_dimensions = <<3, 2>>
  /\ m_d[1].m_available_layers = (0 :> {0}) @@ (1 :> {1})
  /\ Cardinality(allocations) = 3

\* deallocate has freed the middle of a layer between two live
\* allocations: the largest free interval of the layer went from 0 to 1
C30_DeallocateReached ==
  /\ m_d # nullptr
  /\ atlas_call.op = "deallocate"
  /\ atlas_call.location[1] = 1
  /\ Cardinality(allocations) = 2
  /\ m_d[1].m_backing_store.m_dimensions = <<3, 1>>
  /\ m_d[1].m_available_layers = (1 :> {0})

\* allocate on an exhausted atlas that cannot grow has returned (-1, -1)
C30_ExhaustedReached ==
  /\ m_d # nullptr
  /\ atlas_call.op = "allocate"
  /\ atlas_call.return_value = <<-1, -1>>
  /\ ~m_d[1].m_backing_store.m_resizeable
  /\ allocations # {}

====
